---- MODULE Spec2Model ----
(***************************************************************************)
(* A model of passenger-rs: the credential store (storage.rs), the token   *)
(* manager (token_manager.rs), the device-flow authorizer (auth.rs), the   *)
(* request normalizer (openai/completion/models/utils.rs), the inbound     *)
(* handlers, the dialect converters (server/, copilot/utils.rs) and the    *)
(* streaming transcoders (the three translate_sse_line).                   *)
(*                                                                         *)
(* The module holds several specifications over one set of variables.      *)
(* Each specification moves its own group of variables and leaves the      *)
(* other groups parked at their initial value:                             *)
(*   SpecExpiry  storage::is_token_expired as a pure function              *)
(*   SpecToken   concurrent token_manager::get_valid_token callers         *)
(*   SpecPoll    auth::poll_for_access_token against a polling endpoint    *)
(*   SpecNormalize  prepare_for_copilot applied to one request, repeatedly  *)
(*   SpecToolTurns  the same on longer requests of id-less tool turns       *)
(*   SpecHandler    one inbound body through one of the three handlers     *)
(*   SpecResponse   one upstream response through a response conversion    *)
(*   SpecStream     one upstream stream through one of the transcoders     *)
(*   SpecConcurrent two upstream streams at a time, their lines interleaved *)
(*   SpecChunks     the same bytes delivered twice, cut into chunks apart   *)
(*   SpecLogin      login.rs, the interactive login, call by call          *)
(***************************************************************************)
EXTENDS Integers, Sequences, FiniteSets, TLC

VARIABLES
    \* --- SpecExpiry: one evaluation of is_token_expired
    e_token,      \* the CopilotTokenResponse passed in
    e_now,        \* SystemTime::now() in seconds at the evaluation
    e_result,     \* << >>, or <<b>> once the function has returned b
    \* --- SpecToken: the store, the clock, the upstream and the callers
    now,          \* wall clock, unix seconds
    tokenFile,    \* token.json: absent, unparseable or a CopilotTokenResponse
    accessFile,   \* access_token.json: absent, unparseable or an AccessTokenResponse
    pc,           \* pc[c]: where caller c stands inside get_valid_token
    access,       \* access[c]: the access_token string refresh_token holds
    reply,        \* reply[c]: the upstream's answer to c's exchange request
    result,       \* result[c]: what get_valid_token returned to c
    sent,         \* sent[c]: exchange requests c has sent
    wrote,        \* wrote[c]: the writes c has made to token.json
    exchanges,    \* exchange requests the upstream has received
    \* --- SpecPoll: one run of poll_for_access_token
    p_pc,         \* "top", "inflight", "sleeping" or "done"
    interval,     \* the interval parameter (seconds)
    polls,        \* poll requests sent so far
    sleeps,       \* the durations slept, in order
    answers,      \* the answers received, in order
    p_result,     \* what poll_for_access_token returned
    \* --- SpecNormalize: one OpenAIChatRequest under prepare_for_copilot
    n_original,   \* request.messages as the client sent them
    n_messages,   \* request.messages now
    n_runs,       \* how many times prepare_for_copilot has run on the request
    \* --- SpecHandler: one inbound request through one of the three handlers
    h_route,      \* "chat_completions", "ollama_chat" or "responses"
    h_body,       \* the inbound body
    h_pc,         \* "received", "token", "forwarded" or "answered"
    h_request,    \* << >>, or <<r>>: the request the body parsed into
    h_copilot,    \* << >>, or <<r>>: the CopilotChatRequest sent upstream
    h_status,     \* << >>, or <<s>>: the status answered to the client
    h_tokens,     \* calls of Server::get_token
    h_upstream,   \* requests sent to the Copilot API
    h_token,      \* NoResult, or what get_valid_token returned to get_token
    h_exchanges,  \* token-exchange requests sent for this request
    h_outcome,    \* << >>, or <<o>>: how the upstream request ended
    h_response,   \* << >>, or <<r>>: the status and body the upstream answered
    h_error,      \* << >>, or <<e>>: the AppError message behind the answer
    h_branch,     \* "none", or the branch given the response: "sse", "no_sse"
    \* --- SpecLogin: one run of login
    l_pc,         \* the call login is at, "done" or "failed"
    l_calls,      \* the calls into auth and storage login has made, in order
    l_files,      \* the records of the storage directory, by file name
    l_before,     \* l_files when login started
    l_access,     \* << >>, or <<r>>: what poll_for_access_token returned
    l_copilot,    \* << >>, or <<r>>: what get_copilot_token returned
    \* --- SpecResponse: one upstream response through a response conversion
    r_route,      \* the route whose conversion runs
    r_request,    \* the CopilotChatRequest that was sent (model, tools)
    r_upstream,   \* the CopilotChatResponse the upstream returned
    r_clock,      \* SystemTime::now() in seconds at the conversion
    r_out,        \* << >>, or <<o>>: the outcome of the conversion
    \* --- SpecStream, SpecConcurrent: upstream streams through the transcoders
    t_clock,      \* the clock while the streams run
    t_route,      \* per stream: the route that serves it
    t_model,      \* per stream: the model the client's request names
    t_upstream,   \* per stream: the lines of the upstream body
    t_pos,        \* per stream: how many lines have been read
    t_response_id,       \* per stream: response_id of the closure
    t_response_model,    \* per stream: response_model of the closure
    t_accumulated_text,  \* per stream: accumulated_text of the closure
    t_events      \* per stream: what was sent to the client, in order

expiryVars == <<e_token, e_now, e_result>>
tokenVars  == <<now, tokenFile, accessFile, pc, access, reply, result, sent,
                wrote, exchanges>>
pollVars   == <<p_pc, interval, polls, sleeps, answers, p_result>>
normVars   == <<n_original, n_messages, n_runs>>
loginVars  == <<l_pc, l_calls, l_files, l_before, l_access, l_copilot>>
authVars   == <<expiryVars, tokenVars, pollVars, loginVars>>
handlerVars == <<h_route, h_body, h_pc, h_request, h_copilot, h_status,
                 h_tokens, h_upstream, h_token, h_exchanges, h_outcome,
                 h_response, h_error, h_branch>>
responseVars == <<r_route, r_request, r_upstream, r_clock, r_out>>
streamVars == <<t_clock, t_route, t_model, t_upstream, t_pos, t_response_id,
                t_response_model, t_accumulated_text, t_events>>
dialectVars == <<normVars, handlerVars, responseVars, streamVars>>
vars       == <<authVars, dialectVars>>

(***************************************************************************)
(* Bounds of the model.                                                    *)
(***************************************************************************)
MaxNow      == 2    \* the clock runs over 0..MaxNow
NumCallers  == 2    \* concurrent get_valid_token callers
MaxPolls    == 3    \* poll requests one poll_for_access_token run may send
MaxInterval == 2    \* interval parameters are drawn from 0..MaxInterval

(***************************************************************************)
(* Program constants.                                                      *)
(***************************************************************************)
ExpiryBuffer  == 60   \* storage.rs: token.expires_at <= now + 60
SlowDownExtra == 5    \* auth.rs: sleep(Duration::from_secs(interval + 5))

(***************************************************************************)
(* auth.rs: CopilotTokenResponse {token, expires_at, refresh_in}.  Token   *)
(* strings are numbered: 0 is the token the store may hold at the start,   *)
(* n >= 1 the token the upstream mints for the n-th exchange request.      *)
(***************************************************************************)
RefreshIns == {0, 1500}

CopilotTokenResponse(t, e, r) == [token |-> t, expires_at |-> e, refresh_in |-> r]

(***************************************************************************)
(* storage.rs: is_token_expired, with the clock reading as a parameter.    *)
(***************************************************************************)
is_token_expired_strict(token, t) == token.expires_at < t + ExpiryBuffer

is_token_expired(token, t) == token.expires_at <= t + ExpiryBuffer

(***************************************************************************)
(* SpecExpiry: is_token_expired applied to one token at one clock reading. *)
(* expires_at ranges over the values around now and around now + 60.       *)
(***************************************************************************)
ExpiresAts == (0 .. MaxNow) \cup ((ExpiryBuffer - 1) .. (ExpiryBuffer + MaxNow + 1))

ExpiryTokens ==
    {CopilotTokenResponse(t, e, r) : t \in 0 .. 1, e \in ExpiresAts, r \in RefreshIns}

ExpiryInit ==
    /\ e_token \in ExpiryTokens
    /\ e_now \in 0 .. MaxNow
    /\ e_result = << >>

ExpiryParked ==
    /\ e_token = CopilotTokenResponse(0, 0, 0)
    /\ e_now = 0
    /\ e_result = << >>

CheckExpired ==
    /\ e_result = << >>
    /\ e_result' = <<is_token_expired(e_token, e_now)>>
    /\ UNCHANGED <<e_token, e_now>>
    /\ UNCHANGED <<tokenVars, pollVars, loginVars, dialectVars>>

(***************************************************************************)
(* The credential store: two files under ~/.config/passenger-rs.  A file   *)
(* is absent, holds text that does not deserialize, or holds a record.     *)
(***************************************************************************)
None        == [kind |-> "None"]
NoFile      == [kind |-> "NoFile"]
Corrupt     == [kind |-> "Corrupt"]
FileOf(rec) == [kind |-> "Json", json |-> rec]

AccessTokenResponse(a) == [access_token |-> a, token_type |-> "bearer", scope |-> "read:user"]

\* storage.rs: token_exists
token_exists == tokenFile.kind # "NoFile"

\* storage.rs: load_token -> Result<CopilotTokenResponse>
Ok(v)  == [ok |-> TRUE, value |-> v]
Err(e) == [ok |-> FALSE, error |-> e]

load_token ==
    CASE tokenFile.kind = "NoFile"  -> Err("Failed to read token")
      [] tokenFile.kind = "Corrupt" -> Err("Failed to deserialize token")
      [] OTHER                      -> Ok(tokenFile.json)

\* storage.rs: load_access_token -> Result<Option<AccessTokenResponse>>
load_access_token ==
    CASE accessFile.kind = "NoFile"  -> Ok(None)
      [] accessFile.kind = "Corrupt" -> Err("Failed to deserialize token")
      [] OTHER                       -> Ok(accessFile.json)

(***************************************************************************)
(* The upstream exchange endpoint.  A reply is a transport failure or an   *)
(* HTTP response with a status and a body; the body is a service token or  *)
(* text that is no CopilotTokenResponse.  The token minted for the n-th    *)
(* request at time t expires at t + l for a lifetime l the upstream picks: *)
(* within the buffer on arrival, good for one more second, or good for the *)
(* whole run.                                                              *)
(***************************************************************************)
Garbage   == [kind |-> "Garbage"]
Lifetimes == {ExpiryBuffer, ExpiryBuffer + 1, ExpiryBuffer + MaxNow + 1}

Minted(n, t) == {CopilotTokenResponse(n, t + l, 1500) : l \in Lifetimes}

ExchangeReplies(n, t) ==
    {[kind |-> "transport"]}
    \cup {[kind |-> "http", status |-> 200, body |-> b] : b \in {Garbage} \cup Minted(n, t)}
    \cup {[kind |-> "http", status |-> 401, body |-> b] :
            b \in {Garbage, CopilotTokenResponse(n, t + ExpiryBuffer + MaxNow + 1, 1500)}}

\* auth.rs: get_copilot_token, applied to the upstream's reply
is_success(status) == status >= 200 /\ status <= 299

get_copilot_token_any_status(r) ==
    CASE r.kind = "transport"  -> Err("Failed to send Copilot token request")
      [] r.body = Garbage      -> Err("Failed to parse Copilot token response")
      [] OTHER                 -> Ok(r.body)

get_copilot_token(r) ==
    CASE r.kind = "transport"  -> Err("Failed to send Copilot token request")
      [] ~is_success(r.status) -> Err("Copilot token request failed with status")
      [] r.body = Garbage      -> Err("Failed to parse Copilot token response")
      [] OTHER                 -> Ok(r.body)

(***************************************************************************)
(* SpecToken: NumCallers tasks, one per inbound request (server/mod.rs,    *)
(* Server::get_token), each running token_manager::get_valid_token once.   *)
(* The tasks run on a multi-threaded runtime, so they interleave at every  *)
(* access to the store and at the await of the exchange.                   *)
(***************************************************************************)
Callers == 1 .. NumCallers

NoResult        == [kind |-> "NoResult"]
Returned(tok)   == [kind |-> "Ok", token |-> tok]
Failed(e)       == [kind |-> "Err", error |-> e]
NoReply         == [kind |-> "NoReply"]
Pending(n)      == [kind |-> "pending", serial |-> n]

LoginRequired   == "No GitHub access token available. Please run with --login to authenticate."
RefreshFailed   == "Failed to refresh Copilot token"
SaveFailed      == "Failed to save refreshed token"

InitialTokenFiles ==
    {NoFile, Corrupt}
    \cup {FileOf(CopilotTokenResponse(0, e, 1500)) : e \in {0} \cup Lifetimes}

InitialAccessFiles == {NoFile, Corrupt, FileOf(AccessTokenResponse("gho_access"))}

TokenInit ==
    /\ now = 0
    /\ tokenFile \in InitialTokenFiles
    /\ accessFile \in InitialAccessFiles
    /\ pc = [c \in Callers |-> "idle"]
    /\ access = [c \in Callers |-> ""]
    /\ reply = [c \in Callers |-> NoReply]
    /\ result = [c \in Callers |-> NoResult]
    /\ sent = [c \in Callers |-> 0]
    /\ wrote = [c \in Callers |-> 0]
    /\ exchanges = 0

TokenParked ==
    /\ now = 0
    /\ tokenFile = NoFile
    /\ accessFile = NoFile
    /\ pc = [c \in Callers |-> "idle"]
    /\ access = [c \in Callers |-> ""]
    /\ reply = [c \in Callers |-> NoReply]
    /\ result = [c \in Callers |-> NoResult]
    /\ sent = [c \in Callers |-> 0]
    /\ wrote = [c \in Callers |-> 0]
    /\ exchanges = 0

\* The clock advances.
Tick ==
    /\ now < MaxNow
    /\ now' = now + 1
    /\ UNCHANGED <<tokenFile, accessFile, pc, access, reply, result, sent,
                   wrote, exchanges>>
    /\ UNCHANGED <<expiryVars, pollVars, loginVars, dialectVars>>

\* get_valid_token is entered: storage::token_exists()
Call(c) ==
    /\ pc[c] = "idle"
    /\ pc' = [pc EXCEPT ![c] = IF token_exists THEN "load" ELSE "access"]
    /\ UNCHANGED <<now, tokenFile, accessFile, access, reply, result, sent,
                   wrote, exchanges>>
    /\ UNCHANGED <<expiryVars, pollVars, loginVars, dialectVars>>

\* storage::load_token() and the is_token_expired check on what it read
LoadToken_ignore_cache(c) ==
    /\ pc[c] = "load"
    /\ pc' = [pc EXCEPT ![c] = "access"]
    /\ UNCHANGED <<now, tokenFile, accessFile, access, reply, result, sent,
                   wrote, exchanges>>
    /\ UNCHANGED <<expiryVars, pollVars, loginVars, dialectVars>>

LoadToken(c) ==
    /\ pc[c] = "load"
    /\ LET r == load_token IN
         IF r.ok /\ ~is_token_expired(r.value, now)
         THEN /\ result' = [result EXCEPT ![c] = Returned(r.value)]
              /\ pc' = [pc EXCEPT ![c] = "done"]
         ELSE /\ pc' = [pc EXCEPT ![c] = "access"]
              /\ UNCHANGED result
    /\ UNCHANGED <<now, tokenFile, accessFile, access, reply, sent,
                   wrote, exchanges>>
    /\ UNCHANGED <<expiryVars, pollVars, loginVars, dialectVars>>

\* storage::load_access_token()? and the entry of refresh_token
LoadAccess_empty_bearer(c) ==
    /\ pc[c] = "access"
    /\ LET r == load_access_token IN
         IF ~r.ok
         THEN /\ result' = [result EXCEPT ![c] = Failed(r.error)]
              /\ pc' = [pc EXCEPT ![c] = "done"]
              /\ UNCHANGED access
         ELSE /\ access' = [access EXCEPT ![c] =
                              IF r.value = None THEN "" ELSE r.value.access_token]
              /\ pc' = [pc EXCEPT ![c] = "exchange"]
              /\ UNCHANGED result
    /\ UNCHANGED <<now, tokenFile, accessFile, reply, sent, wrote, exchanges>>
    /\ UNCHANGED <<expiryVars, pollVars, loginVars, dialectVars>>

LoadAccess(c) ==
    /\ pc[c] = "access"
    /\ LET r == load_access_token IN
         IF ~r.ok
         THEN /\ result' = [result EXCEPT ![c] = Failed(r.error)]
              /\ pc' = [pc EXCEPT ![c] = "done"]
              /\ UNCHANGED access
         ELSE IF r.value = None
         THEN /\ result' = [result EXCEPT ![c] = Failed(LoginRequired)]
              /\ pc' = [pc EXCEPT ![c] = "done"]
              /\ UNCHANGED access
         ELSE /\ access' = [access EXCEPT ![c] = r.value.access_token]
              /\ pc' = [pc EXCEPT ![c] = "exchange"]
              /\ UNCHANGED result
    /\ UNCHANGED <<now, tokenFile, accessFile, reply, sent, wrote, exchanges>>
    /\ UNCHANGED <<expiryVars, pollVars, loginVars, dialectVars>>

\* refresh_token: auth::get_copilot_token sends the GET
SendExchange_single_flight(c) ==
    /\ pc[c] = "exchange"
    /\ \A d \in Callers \ {c} : pc[d] \notin {"await", "save"}
    /\ sent' = [sent EXCEPT ![c] = sent[c] + 1]
    /\ exchanges' = exchanges + 1
    /\ reply' = [reply EXCEPT ![c] = Pending(exchanges + 1)]
    /\ pc' = [pc EXCEPT ![c] = "await"]
    /\ UNCHANGED <<now, tokenFile, accessFile, access, result, wrote>>
    /\ UNCHANGED <<expiryVars, pollVars, loginVars, dialectVars>>

SendExchange(c) ==
    /\ pc[c] = "exchange"
    /\ sent' = [sent EXCEPT ![c] = sent[c] + 1]
    /\ exchanges' = exchanges + 1
    /\ reply' = [reply EXCEPT ![c] = Pending(exchanges + 1)]
    /\ pc' = [pc EXCEPT ![c] = "await"]
    /\ UNCHANGED <<now, tokenFile, accessFile, access, result, wrote>>
    /\ UNCHANGED <<expiryVars, pollVars, loginVars, dialectVars>>

\* refresh_token: the await of get_copilot_token completes
RecvExchange(c) ==
    /\ pc[c] = "await"
    /\ \E r \in ExchangeReplies(reply[c].serial, now) :
         /\ reply' = [reply EXCEPT ![c] = r]
         /\ IF get_copilot_token(r).ok
            THEN /\ pc' = [pc EXCEPT ![c] = "save"]
                 /\ UNCHANGED result
            ELSE /\ result' = [result EXCEPT ![c] = Failed(RefreshFailed)]
                 /\ pc' = [pc EXCEPT ![c] = "done"]
    /\ UNCHANGED <<now, tokenFile, accessFile, access, sent, wrote, exchanges>>
    /\ UNCHANGED <<expiryVars, pollVars, loginVars, dialectVars>>

\* refresh_token: storage::save_token(&copilot_token) succeeds; Ok(copilot_token)
SaveToken_not_persisted(c) ==
    /\ pc[c] = "save"
    /\ result' = [result EXCEPT ![c] = Returned(get_copilot_token(reply[c]).value)]
    /\ pc' = [pc EXCEPT ![c] = "done"]
    /\ UNCHANGED <<now, tokenFile, accessFile, access, reply, sent, wrote, exchanges>>
    /\ UNCHANGED <<expiryVars, pollVars, loginVars, dialectVars>>

SaveToken(c) ==
    /\ pc[c] = "save"
    /\ LET copilot_token == get_copilot_token(reply[c]).value IN
         /\ tokenFile' = FileOf(copilot_token)
         /\ wrote' = [wrote EXCEPT ![c] = wrote[c] + 1]
         /\ result' = [result EXCEPT ![c] = Returned(copilot_token)]
    /\ pc' = [pc EXCEPT ![c] = "done"]
    /\ UNCHANGED <<now, accessFile, access, reply, sent, exchanges>>
    /\ UNCHANGED <<expiryVars, pollVars, loginVars, dialectVars>>

\* refresh_token: storage::save_token fails (fs::write or create_dir_all); the
\* file is left as it was or, when fs::write had truncated it, unparseable.
SaveTokenFails(c) ==
    /\ pc[c] = "save"
    /\ \/ UNCHANGED <<tokenFile, wrote>>
       \/ /\ tokenFile' = Corrupt
          /\ wrote' = [wrote EXCEPT ![c] = wrote[c] + 1]
    /\ result' = [result EXCEPT ![c] = Failed(SaveFailed)]
    /\ pc' = [pc EXCEPT ![c] = "done"]
    /\ UNCHANGED <<now, accessFile, access, reply, sent, exchanges>>
    /\ UNCHANGED <<expiryVars, pollVars, loginVars, dialectVars>>



TokenNext ==
    \/ Tick
    \/ \E c \in Callers : Call(c)
    \/ \E c \in Callers : LoadToken(c)
    \/ \E c \in Callers : LoadAccess(c)
    \/ \E c \in Callers : SendExchange(c)
    \/ \E c \in Callers : RecvExchange(c)
    \/ \E c \in Callers : SaveToken(c)
    \/ \E c \in Callers : SaveTokenFails(c)

(***************************************************************************)
(* The polling endpoint.  An answer is a transport failure or a body; the  *)
(* HTTP status is not read by poll_for_access_token.  A body is a JSON     *)
(* object of which only the six fields the two target structs name matter; *)
(* a field is Absent or holds a string.                                    *)
(***************************************************************************)
Absent == "<absent>"

PollBody(e, d, u, a, t, sc) ==
    [error |-> e, error_description |-> d, error_uri |-> u,
     access_token |-> a, token_type |-> t, scope |-> sc]

ErrorCodes ==
    {"authorization_pending", "slow_down", "expired_token", "access_denied",
     "incorrect_device_code"}

ErrorObject(code)  == PollBody(code, "description", "uri", Absent, Absent, Absent)
SuccessObject(tok) == PollBody(Absent, Absent, Absent, tok, "bearer", "read:user")

PollBodies ==
    {ErrorObject(code) : code \in ErrorCodes}
    \cup {SuccessObject(tok) : tok \in {"gho_1", "gho_2"}}
    \cup {PollBody("authorization_pending", "description", Absent, Absent, Absent, Absent),
          PollBody("expired_token", Absent, Absent, Absent, Absent, Absent),
          PollBody(Absent, Absent, Absent, "gho_1", "bearer", Absent),
          PollBody("access_denied", "description", "uri", "gho_1", "bearer", "read:user"),
          PollBody(Absent, Absent, Absent, Absent, Absent, Absent)}

PollAnswers == {[kind |-> "transport"]} \cup {[kind |-> "http", body |-> b] : b \in PollBodies}

\* serde_json::from_str::<AccessTokenError>: all three fields are required
parse_AccessTokenError(b) ==
    IF b.error # Absent /\ b.error_description # Absent /\ b.error_uri # Absent
    THEN Ok([error |-> b.error, error_description |-> b.error_description,
             error_uri |-> b.error_uri])
    ELSE Err("missing field")

\* serde_json::from_str::<AccessTokenResponse>: all three fields are required
parse_AccessTokenResponse(b) ==
    IF b.access_token # Absent /\ b.token_type # Absent /\ b.scope # Absent
    THEN Ok([access_token |-> b.access_token, token_type |-> b.token_type,
             scope |-> b.scope])
    ELSE Err("missing field")

(***************************************************************************)
(* SpecPoll: auth::poll_for_access_token.  p_pc is "top" at the head of    *)
(* the loop, "inflight" while the POST is awaited, "sleeping" inside       *)
(* tokio::time::sleep and "done" once the function has returned.           *)
(***************************************************************************)
PollInit ==
    /\ p_pc = "top"
    /\ interval \in 0 .. MaxInterval
    /\ polls = 0
    /\ sleeps = << >>
    /\ answers = << >>
    /\ p_result = NoResult

PollParked ==
    /\ p_pc = "top"
    /\ interval = 0
    /\ polls = 0
    /\ sleeps = << >>
    /\ answers = << >>
    /\ p_result = NoResult

\* client.post(oauth_token_url)...send()
PollSend ==
    /\ p_pc = "top"
    /\ polls < MaxPolls
    /\ polls' = polls + 1
    /\ p_pc' = "inflight"
    /\ UNCHANGED <<interval, sleeps, answers, p_result>>
    /\ UNCHANGED <<expiryVars, tokenVars, loginVars, dialectVars>>

PollReturn(r) ==
    /\ p_result' = r
    /\ p_pc' = "done"
    /\ UNCHANGED <<interval, sleeps>>

PollSleep(secs) ==
    /\ sleeps' = Append(sleeps, secs)
    /\ p_pc' = "sleeping"
    /\ UNCHANGED <<interval, p_result>>

\* the match on error_response.error
OnErrorObject_no_sleep(e) ==
    CASE e.error = "authorization_pending" -> p_pc' = "top" /\ UNCHANGED <<interval, sleeps, p_result>>
      [] e.error = "slow_down"     -> PollSleep(interval + SlowDownExtra)
      [] e.error = "expired_token" -> PollReturn(Failed("ExpiredDeviceCode"))
      [] e.error = "access_denied" -> PollReturn(Failed("AccessDenied"))
      [] OTHER -> PollReturn([kind |-> "Err", error |-> "PollError", code |-> e.error,
                              description |-> e.error_description])

OnErrorObject_retry_unknown(e) ==
    CASE e.error = "authorization_pending" -> PollSleep(interval)
      [] e.error = "slow_down"     -> PollSleep(interval + SlowDownExtra)
      [] e.error = "expired_token" -> PollReturn(Failed("ExpiredDeviceCode"))
      [] e.error = "access_denied" -> PollReturn(Failed("AccessDenied"))
      [] OTHER -> PollSleep(interval)

OnErrorObject_deadline(e) ==
    CASE e.error = "authorization_pending" ->
             IF polls >= 2 THEN PollReturn(Failed("ExpiredDeviceCode")) ELSE PollSleep(interval)
      [] e.error = "slow_down"     -> PollSleep(interval + SlowDownExtra)
      [] e.error = "expired_token" -> PollReturn(Failed("ExpiredDeviceCode"))
      [] e.error = "access_denied" -> PollReturn(Failed("AccessDenied"))
      [] OTHER -> PollReturn([kind |-> "Err", error |-> "PollError", code |-> e.error,
                              description |-> e.error_description])

OnErrorObject(e) ==
    CASE e.error = "authorization_pending" -> PollSleep(interval)
      [] e.error = "slow_down"     -> PollSleep(interval + SlowDownExtra)
      [] e.error = "expired_token" -> PollReturn(Failed("ExpiredDeviceCode"))
      [] e.error = "access_denied" -> PollReturn(Failed("AccessDenied"))
      [] OTHER -> PollReturn([kind |-> "Err", error |-> "PollError", code |-> e.error,
                              description |-> e.error_description])

\* the await of send() completes and the body is read and parsed
PollRecv ==
    /\ p_pc = "inflight"
    /\ \E a \in PollAnswers :
         /\ answers' = Append(answers, a)
         /\ IF a.kind = "transport"
            THEN PollReturn(Failed("Failed to send access token request"))
            ELSE LET e  == parse_AccessTokenError(a.body)
                     ok == parse_AccessTokenResponse(a.body)
                 IN  IF e.ok THEN OnErrorObject(e.value)
                     ELSE IF ok.ok THEN PollReturn([kind |-> "Ok", token |-> ok.value])
                     ELSE PollReturn(Failed("Failed to parse access token response"))
    /\ UNCHANGED polls
    /\ UNCHANGED <<expiryVars, tokenVars, loginVars, dialectVars>>

\* tokio::time::sleep returns; continue
PollWake ==
    /\ p_pc = "sleeping"
    /\ p_pc' = "top"
    /\ UNCHANGED <<interval, polls, sleeps, answers, p_result>>
    /\ UNCHANGED <<expiryVars, tokenVars, loginVars, dialectVars>>

PollNext == PollSend \/ PollRecv \/ PollWake

ExpiryNext == CheckExpired

(***************************************************************************)
(* The request normalizer: openai/completion/models/utils.rs.              *)
(* An Option<T> is << >> for None and <<v>> for Some(v); a Vec is a        *)
(* sequence.                                                               *)
(***************************************************************************)
MaxMsgs == 3
MaxRuns == 2

Some(v) == <<v>>

assistant_role == "assistant"

tool_role == "tool"

ToolCall(id, name) ==
    [id |-> id, tool_type |-> "function",
     function |-> [name |-> name, arguments |-> "{}"]]

OpenAIMessage(role, content, tool_calls, tool_call_id, name) ==
    [role |-> role, content |-> content, tool_calls |-> tool_calls,
     tool_call_id |-> tool_call_id, name |-> name]

\* The ids a client can send: none, an empty string, or its own.
ClientIds == {<< >>, Some(""), Some("call_a")}

ToolCallLists ==
    {<< >>}
    \cup {<<ToolCall(id, name)>> : id \in ClientIds, name \in {"f", "g"}}
    \cup {<<ToolCall(Some("call_a"), "f"), ToolCall(Some("call_b"), "g")>>,
          <<ToolCall(Some("call_a"), "f"), ToolCall(<< >>, "g")>>,
          <<ToolCall(<< >>, "f"), ToolCall(<< >>, "g")>>}

ClientMessages ==
    {OpenAIMessage("user", Some("hello"), << >>, << >>, << >>),
     OpenAIMessage("user", Some("hello"), Some(<<ToolCall(<< >>, "f")>>), << >>, << >>),
     OpenAIMessage(assistant_role, Some("hi"), << >>, << >>, << >>)}
    \cup {OpenAIMessage(assistant_role, << >>, Some(calls), << >>, << >>) :
            calls \in ToolCallLists}
    \cup {OpenAIMessage(tool_role, Some("result"), << >>, id, name) :
            id \in ClientIds, name \in {<< >>, Some("h")}}

RECURSIVE SeqsUpTo(_, _)
SeqsUpTo(S, n) ==
    IF n = 0 THEN {<< >>}
    ELSE LET shorter == SeqsUpTo(S, n - 1)
         IN  shorter \cup {Append(q, x) : q \in {r \in shorter : Len(r) = n - 1}, x \in S}

has_valid_id(id) == id # << >> /\ id[1] # ""

ids_present(messages) ==
    LET all_tool_messages_have_ids ==
            \A i \in DOMAIN messages :
                messages[i].role = tool_role => has_valid_id(messages[i].tool_call_id)
        all_tool_calls_have_ids ==
            \A i \in DOMAIN messages :
                (messages[i].role = assistant_role /\ messages[i].tool_calls # << >>) =>
                    \A j \in DOMAIN messages[i].tool_calls[1] :
                        has_valid_id(messages[i].tool_calls[1][j].id)
    IN  all_tool_messages_have_ids /\ all_tool_calls_have_ids

\* The function names of the tool calls of the assistant messages among the
\* first n messages, in order (assistant_tool_name in ensure_tool_ids).
RECURSIVE assistant_tool_name(_, _)
assistant_tool_name(messages, n) ==
    IF n = 0 THEN << >>
    ELSE LET m     == messages[n]
             calls == IF m.role = assistant_role /\ m.tool_calls # << >>
                      THEN m.tool_calls[1] ELSE << >>
         IN  assistant_tool_name(messages, n - 1)
                 \o [j \in 1 .. Len(calls) |-> calls[j].function.name]

\* The position message i has under filter(role == tool).enumerate().
ToolIndex(messages, i) ==
    Cardinality({h \in 1 .. i - 1 : messages[h].role = tool_role})

\* format!("{}", idx) of a usize.
format(idx) == ToString(idx)

Renumbered(tool_calls) ==
    [j \in 1 .. Len(tool_calls) |-> [tool_calls[j] EXCEPT !.id = Some(format(j - 1))]]

\* The body of ensure_tool_ids with "fill in only what is missing" in place
\* of the positional zip over all tool messages.
ensure_tool_ids_fill_missing(messages) ==
    IF ids_present(messages) THEN messages
    ELSE LET names == assistant_tool_name(messages, Len(messages))
             Missing(i) == messages[i].role = tool_role
                           /\ ~has_valid_id(messages[i].tool_call_id)
             idx(i) == Cardinality({h \in 1 .. i - 1 : Missing(h)})
         IN  [i \in 1 .. Len(messages) |->
                LET m == messages[i] IN
                IF Missing(i) /\ idx(i) < Len(names)
                THEN [m EXCEPT !.name = Some(names[idx(i) + 1]),
                               !.tool_call_id = Some(format(idx(i)))]
                ELSE IF m.role = assistant_role /\ m.tool_calls # << >>
                THEN [m EXCEPT !.tool_calls = Some(Renumbered(m.tool_calls[1]))]
                ELSE m]

\* The body of ensure_tool_ids without its ids_present guard.
ensure_tool_ids_unguarded(messages) ==
    LET names == assistant_tool_name(messages, Len(messages))
    IN  [i \in 1 .. Len(messages) |->
            LET m   == messages[i]
                idx == ToolIndex(messages, i)
            IN  IF m.role = tool_role /\ idx < Len(names)
                THEN [m EXCEPT !.name = Some(names[idx + 1]),
                               !.tool_call_id = Some(format(idx))]
                ELSE IF m.role = assistant_role /\ m.tool_calls # << >>
                THEN [m EXCEPT !.tool_calls = Some(Renumbered(m.tool_calls[1]))]
                ELSE m]

ensure_tool_ids(messages) ==
    IF ~ids_present(messages)
    THEN LET names == assistant_tool_name(messages, Len(messages))
         IN  [i \in 1 .. Len(messages) |->
                LET m   == messages[i]
                    idx == ToolIndex(messages, i)
                IN  \* zip stops at the shorter of the two iterators
                    IF m.role = tool_role /\ idx < Len(names)
                    THEN [m EXCEPT !.name = Some(names[idx + 1]),
                                   !.tool_call_id = Some(format(idx))]
                    ELSE IF m.role = assistant_role /\ m.tool_calls # << >>
                    THEN [m EXCEPT !.tool_calls = Some(Renumbered(m.tool_calls[1]))]
                    ELSE m]
    ELSE messages

prepare_for_copilot(messages) == ensure_tool_ids(messages)

NormInit ==
    /\ n_original \in SeqsUpTo(ClientMessages, MaxMsgs)
    /\ n_messages = n_original
    /\ n_runs = 0

MaxTurns == 4

\* The messages of a conversation with several rounds of tool calls, as a
\* client without ids (Rig's Ollama provider) sends them.
ToolTurnMessages ==
    {OpenAIMessage("user", Some("hello"), << >>, << >>, << >>),
     OpenAIMessage(assistant_role, << >>, Some(<<ToolCall(<< >>, "f")>>), << >>, << >>),
     OpenAIMessage(assistant_role, << >>, Some(<<ToolCall(<< >>, "g")>>), << >>, << >>),
     OpenAIMessage(assistant_role, << >>,
                   Some(<<ToolCall(<< >>, "f"), ToolCall(<< >>, "g")>>), << >>, << >>),
     OpenAIMessage(tool_role, Some("result"), << >>, << >>, << >>)}

\* A request of up to MaxTurns such messages.
ToolTurnsInit ==
    /\ n_original \in SeqsUpTo(ToolTurnMessages, MaxTurns)
    /\ n_messages = n_original
    /\ n_runs = 0

NormParked ==
    /\ n_original = << >>
    /\ n_messages = << >>
    /\ n_runs = 0

Normalize ==
    /\ n_runs < MaxRuns
    /\ n_messages' = prepare_for_copilot(n_messages)
    /\ n_runs' = n_runs + 1
    /\ UNCHANGED n_original
    /\ UNCHANGED <<authVars, handlerVars, responseVars, streamVars>>

NormNext == Normalize

(***************************************************************************)
(* The three inbound handlers up to the upstream's answer:                 *)
(* server/openai/chat_completion.rs, server_ollama_chat.rs,                *)
(* server/openai/responses_chat.rs, and the request converters of          *)
(* copilot/utils.rs.  A body is the JSON text the client sent: syntax_ok   *)
(* says whether it is JSON at all, the other fields are the keys of the    *)
(* object, << >> where a key is missing.  The i-th message or input item   *)
(* of a body carries the text format(i), which tells the items apart.  A   *)
(* text of the Responses dialect is a sequence of pieces.                  *)
(***************************************************************************)
MaxItems == 3

Routes == {"chat_completions", "ollama_chat", "responses"}

ChatItemKinds == {"user", "assistant", "assistant_call", "tool", "no_role"}

ChatItem(kind, i) ==
    CASE kind = "user" ->
             [role |-> Some("user"), content |-> Some(format(i)),
              tool_calls |-> << >>, tool_call_id |-> << >>, name |-> << >>]
      [] kind = "assistant" ->
             [role |-> Some(assistant_role), content |-> Some(format(i)),
              tool_calls |-> << >>, tool_call_id |-> << >>, name |-> << >>]
      [] kind = "assistant_call" ->
             [role |-> Some(assistant_role), content |-> << >>,
              tool_calls |-> Some(<<ToolCall(<< >>, format(i))>>),
              tool_call_id |-> << >>, name |-> << >>]
      [] kind = "tool" ->
             [role |-> Some(tool_role), content |-> Some(format(i)),
              tool_calls |-> << >>, tool_call_id |-> << >>, name |-> << >>]
      [] kind = "no_role" ->
             [role |-> << >>, content |-> Some(format(i)),
              tool_calls |-> << >>, tool_call_id |-> << >>, name |-> << >>]

InputItemKinds ==
    {"user", "user_blocks", "assistant", "function_call", "function_call_output",
     "no_type"}

InputText(text) == [type |-> "input_text", text |-> text]

InputItem(kind, i) ==
    CASE kind = "user" ->
             [type |-> Some("message"), role |-> Some("user"),
              content |-> Some(<<InputText(<<format(i)>>)>>),
              name |-> << >>, arguments |-> << >>, output |-> << >>]
      [] kind = "user_blocks" ->
             [type |-> Some("message"), role |-> Some("user"),
              content |-> Some(<<InputText(<<format(i)>>), InputText(<<"more">>)>>),
              name |-> << >>, arguments |-> << >>, output |-> << >>]
      [] kind = "assistant" ->
             [type |-> Some("message"), role |-> Some(assistant_role),
              content |-> Some(<<InputText(<<format(i)>>)>>),
              name |-> << >>, arguments |-> << >>, output |-> << >>]
      [] kind = "function_call" ->
             [type |-> Some("function_call"), role |-> << >>, content |-> << >>,
              name |-> Some(format(i)), arguments |-> Some("{}"), output |-> << >>]
      [] kind = "function_call_output" ->
             [type |-> Some("function_call_output"), role |-> << >>,
              content |-> << >>, name |-> << >>, arguments |-> << >>,
              output |-> Some(format(i))]
      [] kind = "no_type" ->
             [type |-> << >>, role |-> Some("user"),
              content |-> Some(<<InputText(<<format(i)>>)>>),
              name |-> << >>, arguments |-> << >>, output |-> << >>]

NotJson == [syntax_ok |-> FALSE]

ChatBodies ==
    {NotJson} \cup
    {[syntax_ok |-> TRUE, model |-> model, stream |-> stream,
      messages |-> Some([i \in 1 .. Len(kinds) |-> ChatItem(kinds[i], i)])] :
        model \in {<< >>, Some("gpt-4")}, stream \in {<< >>, Some(TRUE)},
        kinds \in SeqsUpTo(ChatItemKinds, MaxItems)} \cup
    {[syntax_ok |-> TRUE, model |-> Some("gpt-4"), stream |-> << >>,
      messages |-> << >>]}

ResponsesBodies ==
    {NotJson} \cup
    {[syntax_ok |-> TRUE, model |-> model, stream |-> stream,
      instructions |-> <<"instructions">>,
      input |-> Some([i \in 1 .. Len(kinds) |-> InputItem(kinds[i], i)])] :
        model \in {<< >>, Some("gpt-4")}, stream \in {<< >>, Some(TRUE)},
        kinds \in SeqsUpTo(InputItemKinds, MaxItems)} \cup
    {[syntax_ok |-> TRUE, model |-> Some("gpt-4"), stream |-> << >>,
      instructions |-> <<"instructions">>, input |-> << >>]}

Bodies(route) == IF route = "responses" THEN ResponsesBodies ELSE ChatBodies

\* #[serde(default)] on a bool.
default_false(b) == IF b = << >> THEN FALSE ELSE b[1]

\* serde's derive for OpenAIChatRequest behind axum's Json extractor: model
\* and messages are required, and so is each message's role.
parse_OpenAIChatRequest(body) ==
    IF ~body.syntax_ok THEN Err(400)
    ELSE IF \/ body.model = << >>
            \/ body.messages = << >>
            \/ \E i \in DOMAIN body.messages[1] : body.messages[1][i].role = << >>
    THEN Err(422)
    ELSE Ok([model    |-> body.model[1],
             stream   |-> default_false(body.stream),
             messages |-> [i \in DOMAIN body.messages[1] |->
                             LET m == body.messages[1][i]
                             IN  OpenAIMessage(m.role[1], m.content, m.tool_calls,
                                               m.tool_call_id, m.name)]])

\* serde_json::from_str::<Value> and then serde_json::from_value::<PromptRequest>:
\* input and model are required, and so is each input item's type.
parse_PromptRequest(body) ==
    IF ~body.syntax_ok THEN Err("Invalid JSON")
    ELSE IF \/ body.model = << >>
            \/ body.input = << >>
            \/ \E i \in DOMAIN body.input[1] : body.input[1][i].type = << >>
    THEN Err("Invalid request structure")
    ELSE Ok([model        |-> body.model[1],
             stream       |-> default_false(body.stream),
             instructions |-> body.instructions,
             input        |-> [i \in DOMAIN body.input[1] |->
                                 LET m == body.input[1][i]
                                 IN  [message_type |-> m.type[1], role |-> m.role,
                                      content |-> m.content, name |-> m.name,
                                      arguments |-> m.arguments,
                                      output |-> m.output]]])

\* A CopilotMessage that loses its tool_call_id.
CopilotMessage_no_id(role, content, tool_calls, tool_call_id, name) ==
    [role |-> role, content |-> content, padding |-> << >>,
     tool_calls |-> tool_calls, tool_call_id |-> << >>, name |-> name]

CopilotMessage(role, content, tool_calls, tool_call_id, name) ==
    [role |-> role, content |-> content, padding |-> << >>,
     tool_calls |-> tool_calls, tool_call_id |-> tool_call_id, name |-> name]

\* impl From<OpenAIChatRequest> for CopilotChatRequest
CopilotFromOpenAI(request) ==
    [model    |-> request.model,
     stream   |-> Some(request.stream),
     messages |-> [i \in DOMAIN request.messages |->
                     LET m == request.messages[i]
                     IN  CopilotMessage(m.role, m.content, m.tool_calls,
                                        m.tool_call_id, m.name)]]

\* Vec<String>::join("\n") over texts that are sequences of pieces.
RECURSIVE join(_, _)
join(texts, n) ==
    IF n = 0 THEN << >>
    ELSE IF n = 1 THEN texts[1]
    ELSE join(texts, n - 1) \o <<"\n">> \o texts[n]

unwrap_or(opt, default) == IF opt = << >> THEN default ELSE opt[1]

Min(a, b) == IF a < b THEN a ELSE b

\* impl From<PromptRequest> for CopilotChatRequest
CopilotFromPrompt(value) ==
    LET IsUser(m)   == m.role = Some("user")
        IsCall(m)   == m.message_type = "function_call"
        IsOutput(m) == m.message_type = "function_call_output"
        users   == SelectSeq(value.input, IsUser)
        calls   == SelectSeq(value.input, IsCall)
        outputs == SelectSeq(value.input, IsOutput)
        UserContent(m) ==
            IF m.content # << >>
            THEN join([j \in 1 .. Len(m.content[1]) |-> m.content[1][j].text],
                      Len(m.content[1]))
            ELSE << >>
        function_call_messages_tool_calls ==
            [id \in 1 .. Len(calls) |->
                [id |-> Some(format(id - 1)), tool_type |-> "function",
                 function |-> [name |-> unwrap_or(calls[id].name, "SHOULD HAVE BEEN SET"),
                               arguments |-> unwrap_or(calls[id].arguments,
                                                       "SHOULD HAVE BEEN SET")]]]
        function_call_message ==
            CopilotMessage(assistant_role, << >>,
                           Some(function_call_messages_tool_calls), << >>, << >>)
        function_call_output_messages ==
            [id \in 1 .. Min(Len(outputs), Len(calls)) |->
                CopilotMessage(tool_role, outputs[id].output, << >>,
                               Some(format(id - 1)),
                               Some(function_call_messages_tool_calls[id].function.name))]
    IN  [model    |-> value.model,
         stream   |-> Some(FALSE),
         messages |->
            <<CopilotMessage("system", Some(value.instructions), << >>, << >>, << >>)>>
            \o [i \in 1 .. Len(users) |->
                  CopilotMessage("user", Some(UserContent(users[i])), << >>, << >>, << >>)]
            \o (IF function_call_messages_tool_calls # << >>
                THEN <<function_call_message>> \o function_call_output_messages
                ELSE << >>)]

HandlerInit ==
    /\ h_route \in Routes
    /\ h_body \in Bodies(h_route)
    /\ h_pc = "received"
    /\ h_request = << >>
    /\ h_copilot = << >>
    /\ h_status = << >>
    /\ h_tokens = 0
    /\ h_upstream = 0
    /\ h_token = NoResult
    /\ h_exchanges = 0
    /\ h_outcome = << >>
    /\ h_response = << >>
    /\ h_error = << >>
    /\ h_branch = "none"

HandlerParked ==
    /\ h_route = "chat_completions"
    /\ h_body = NotJson
    /\ h_pc = "answered"
    /\ h_request = << >>
    /\ h_copilot = << >>
    /\ h_status = << >>
    /\ h_tokens = 0
    /\ h_upstream = 0
    /\ h_token = NoResult
    /\ h_exchanges = 0
    /\ h_outcome = << >>
    /\ h_response = << >>
    /\ h_error = << >>
    /\ h_branch = "none"

\* A handler answers the client and ends.
Answer(status) ==
    /\ h_pc' = "answered"
    /\ h_status' = Some(status)

\* The handler reaches Self::get_token(state.clone()).await.
AskToken ==
    /\ h_pc' = "token"
    /\ h_tokens' = h_tokens + 1
    /\ UNCHANGED h_status

\* chat_completions and ollama_chat from the arrival of the body to the
\* call of get_token: the Json<OpenAIChatRequest> extractor, then
\* prepare_for_copilot.
JsonEntry(route) ==
    /\ h_route = route
    /\ h_pc = "received"
    /\ LET parsed == parse_OpenAIChatRequest(h_body)
       IN  IF parsed.ok
           THEN /\ h_request' = Some([parsed.value EXCEPT
                                        !.messages = prepare_for_copilot(@)])
                /\ AskToken
           ELSE /\ Answer(parsed.error)
                /\ UNCHANGED <<h_request, h_tokens>>
    /\ UNCHANGED <<h_route, h_body, h_copilot, h_upstream>>
    /\ UNCHANGED <<h_token, h_exchanges, h_outcome>>
    /\ UNCHANGED <<h_response, h_error, h_branch>>
    /\ UNCHANGED <<authVars, normVars, responseVars, streamVars>>

chat_completions == JsonEntry("chat_completions")

ollama_chat == JsonEntry("ollama_chat")

\* openai_responses_chat with the token asked for ahead of the parse.
openai_responses_chat_token_first ==
    /\ h_route = "responses"
    /\ h_pc = "received"
    /\ LET parsed == parse_PromptRequest(h_body)
       IN  /\ h_request' = IF parsed.ok THEN Some(parsed.value) ELSE << >>
           /\ AskToken
    /\ UNCHANGED <<h_route, h_body, h_copilot, h_upstream>>
    /\ UNCHANGED <<h_token, h_exchanges, h_outcome>>
    /\ UNCHANGED <<h_response, h_error, h_branch>>
    /\ UNCHANGED <<authVars, normVars, responseVars, streamVars>>

\* openai_responses_chat from the arrival of the body to the call of
\* get_token.
openai_responses_chat ==
    /\ h_route = "responses"
    /\ h_pc = "received"
    /\ LET parsed == parse_PromptRequest(h_body)
       IN  IF parsed.ok
           THEN /\ h_request' = Some(parsed.value)
                /\ AskToken
           ELSE \* AppError::BadRequest
                /\ Answer(400)
                /\ UNCHANGED <<h_request, h_tokens>>
    /\ UNCHANGED <<h_route, h_body, h_copilot, h_upstream>>
    /\ UNCHANGED <<h_token, h_exchanges, h_outcome>>
    /\ UNCHANGED <<h_response, h_error, h_branch>>
    /\ UNCHANGED <<authVars, normVars, responseVars, streamVars>>

\* What one call of get_valid_token does, seen from the handler: the token
\* it returns or the error it fails with, and the exchange requests it sent.
\* refresh_token calls get_copilot_token once; a cached token and a missing
\* access token send nothing.
TokenOutcomes ==
    { [result |-> Returned("cached"),      exchanges |-> 0],
      [result |-> Failed(LoginRequired),   exchanges |-> 0],
      [result |-> Returned("refreshed"),   exchanges |-> 1],
      [result |-> Failed(RefreshFailed),   exchanges |-> 1],
      [result |-> Failed(SaveFailed),      exchanges |-> 1] }

\* get_token with a second exchange after a failed one.
get_token_retry(outcome) ==
    IF outcome.result = Failed(RefreshFailed)
    THEN [result |-> outcome.result, exchanges |-> outcome.exchanges + 1,
          error |-> Some(401)]
    ELSE [result |-> outcome.result, exchanges |-> outcome.exchanges,
          error |-> IF outcome.result.kind = "Err" THEN Some(401) ELSE << >>]

\* Server::get_token: every error of get_valid_token becomes
\* AppError::Unauthorized, whatever its kind.
get_token(outcome) ==
    [result |-> outcome.result, exchanges |-> outcome.exchanges,
     error |-> IF outcome.result.kind = "Err" THEN Some(401) ELSE << >>]

\* get_token returns: on failure the handler answers Unauthorized; on
\* success it converts the request and forward_prompt sends it.
TokenReturns ==
    /\ h_pc = "token"
    /\ \E outcome \in TokenOutcomes :
          LET got == get_token(outcome)
          IN  /\ h_token' = got.result
              /\ h_exchanges' = h_exchanges + got.exchanges
              /\ IF got.error # << >>
                 THEN /\ Answer(got.error[1])
                      /\ UNCHANGED <<h_copilot, h_upstream>>
                 ELSE /\ h_request # << >>
                      /\ h_copilot' = Some(IF h_route = "responses"
                                           THEN CopilotFromPrompt(h_request[1])
                                           ELSE CopilotFromOpenAI(h_request[1]))
                      /\ h_upstream' = h_upstream + 1
                      /\ h_pc' = "forwarded"
                      /\ UNCHANGED h_status
    /\ UNCHANGED <<h_route, h_body, h_request, h_tokens, h_outcome>>
    /\ UNCHANGED <<h_response, h_error, h_branch>>
    /\ UNCHANGED <<authVars, normVars, responseVars, streamVars>>

UpstreamOutcomes == {"transport", "error_status", "unparseable", "ok"}

ErrorStatuses == {429, 503}

\* What the upstream answers in each outcome: nothing when the transport
\* fails, else a status and a body text (<< >> when the body cannot be read).
UpstreamReplies(outcome) ==
    CASE outcome = "transport"    -> {<< >>}
      [] outcome = "error_status" ->
            {Some([status |-> status, text |-> text]) :
                status \in ErrorStatuses, text \in {<< >>, Some("quota exceeded")}}
      [] outcome = "unparseable"  -> {Some([status |-> 200, text |-> Some("<html>")])}
      [] outcome = "ok"           -> {Some([status |-> 200, text |-> Some("ok")])}

\* status.is_success() of the upstream's answer
status_is_success(status) == status \in 200 .. 299

InternalServerError(message) == [status |-> 500, message |-> message]

\* handle_errors that reports the status of its own answer and never reads
\* the upstream's body.
handle_errors_opaque(response) ==
    InternalServerError([text |-> "Copilot API error: {} - {}",
                         status |-> 500,
                         error_text |-> "Unknown error"])

\* CopilotIntegration::handle_errors:
\* format!("Copilot API error: {} - {}", status, error_text)
handle_errors(response) ==
    InternalServerError([text |-> "Copilot API error: {} - {}",
                         status |-> response.status,
                         error_text |-> unwrap_or(response.text, "Unknown error")])

\* forward_prompt returns. A transport failure and a non-success status are
\* answered as InternalServerError before the response reaches a branch;
\* otherwise the client's stream flag picks the branch, and the branch that
\* does not stream answers InternalServerError for a body that is no
\* CopilotChatResponse.
UpstreamAnswers ==
    /\ h_pc = "forwarded"
    /\ \E outcome \in UpstreamOutcomes :
       \E response \in UpstreamReplies(outcome) :
          /\ h_outcome' = Some(outcome)
          /\ h_response' = response
          /\ IF response = << >>
             THEN /\ Answer(500)
                  /\ h_error' = Some([text |-> "Failed to communicate with Copilot API"])
                  /\ h_branch' = "none"
             ELSE IF ~status_is_success(response[1].status)
             THEN /\ Answer(handle_errors(response[1]).status)
                  /\ h_error' = Some(handle_errors(response[1]).message)
                  /\ h_branch' = "none"
             ELSE IF h_request[1].stream
             THEN /\ Answer(200)
                  /\ h_error' = << >>
                  /\ h_branch' = "sse"
             ELSE /\ h_branch' = "no_sse"
                  /\ IF outcome = "unparseable"
                     THEN /\ Answer(500)
                          /\ h_error' = Some([text |-> "Failed to parse Copilot response"])
                     ELSE /\ Answer(200)
                          /\ h_error' = << >>
    /\ UNCHANGED <<h_route, h_body, h_request, h_copilot, h_tokens, h_upstream>>
    /\ UNCHANGED <<h_token, h_exchanges>>
    /\ UNCHANGED <<authVars, normVars, responseVars, streamVars>>

HandlerNext ==
    \/ chat_completions
    \/ ollama_chat
    \/ openai_responses_chat
    \/ TokenReturns
    \/ UpstreamAnswers

(***************************************************************************)
(* The response conversions (not streamed): the tail of chat_completions,  *)
(* From<CopilotChatResponse> for CompletionResponse, and                   *)
(* transform_to_ollama_response.                                           *)
(***************************************************************************)
MaxChoices == 2

CopilotChoice(index, message, finish_reason) ==
    [index |-> index, message |-> message, finish_reason |-> finish_reason]

CopilotUsage(p, c, t) ==
    [prompt_tokens |-> p, completion_tokens |-> c, total_tokens |-> t]

UpstreamToolCall(id, name, arguments) ==
    [id |-> id, tool_type |-> "function",
     function |-> [name |-> name, arguments |-> arguments]]

\* The messages and finish reasons an upstream choice can carry.
UpstreamShapes ==
    {[message |-> CopilotMessage(assistant_role, Some("Hello"), << >>, << >>, << >>),
      finish_reason |-> "stop"],
     [message |-> CopilotMessage(assistant_role, Some("Bye"), << >>, << >>, << >>),
      finish_reason |-> "content_filter"],
     [message |-> CopilotMessage(assistant_role, << >>, << >>, << >>, << >>),
      finish_reason |-> "length"],
     [message |-> CopilotMessage(assistant_role, << >>,
                     Some(<<UpstreamToolCall(Some("call_1"), "f", "{}")>>),
                     << >>, << >>),
      finish_reason |-> "tool_calls"],
     [message |-> CopilotMessage(assistant_role, Some("Hello"),
                     Some(<<UpstreamToolCall(<< >>, "g", "not json"),
                            UpstreamToolCall(Some("call_2"), "f", "{}")>>),
                     << >>, << >>),
      finish_reason |-> "tool_calls"],
     [message |-> CopilotMessage(assistant_role, << >>, Some(<< >>), << >>, << >>),
      finish_reason |-> "stop"]}

UpstreamChoices ==
    {CopilotChoice(index, shape.message, shape.finish_reason) :
        index \in {<< >>, Some(0), Some(5)}, shape \in UpstreamShapes}

UpstreamResponses ==
    {[id |-> "chatcmpl-1", created |-> created, model |-> "gpt-4-0613",
      choices |-> choices, usage |-> usage] :
        created \in {<< >>, Some(0), Some(3)},
        choices \in SeqsUpTo(UpstreamChoices, MaxChoices),
        usage \in {<< >>, Some(CopilotUsage(10, 20, 30))}}

SentRequests ==
    {[model |-> "gpt-4", tools |-> tools] :
        tools \in {<< >>,
                   Some(<<[tool_type |-> "function",
                           function |-> [name |-> "f",
                                         description |-> Some("Description")]]>>)}}

Clocks == {7, 8}

\* The tail of chat_completions with every choice numbered by its position.
OpenAIChatResponse_positional(copilot_response, since_the_epoch) ==
    [id      |-> copilot_response.id,
     object  |-> "chat.completion",
     created |-> unwrap_or(copilot_response.created, since_the_epoch),
     model   |-> copilot_response.model,
     choices |-> [i \in 1 .. Len(copilot_response.choices) |->
                    LET c == copilot_response.choices[i]
                    IN  [index |-> i - 1,
                         message |-> OpenAIMessage(c.message.role, c.message.content,
                                         c.message.tool_calls, c.message.tool_call_id,
                                         c.message.name),
                         finish_reason |-> c.finish_reason]],
     usage   |-> IF copilot_response.usage # << >>
                 THEN copilot_response.usage[1]
                 ELSE CopilotUsage(0, 0, 0)]

\* The tail of chat_completions: the OpenAIChatResponse built from the parsed
\* CopilotChatResponse.  enumerate() counts from 0; the cast `i as u32` is
\* exact for every position a response of MaxChoices choices has.
OpenAIChatResponse(copilot_response, since_the_epoch) ==
    [id      |-> copilot_response.id,
     object  |-> "chat.completion",
     created |-> unwrap_or(copilot_response.created, since_the_epoch),
     model   |-> copilot_response.model,
     choices |-> [i \in 1 .. Len(copilot_response.choices) |->
                    LET c == copilot_response.choices[i]
                    IN  [index |-> unwrap_or(c.index, i - 1),
                         message |-> OpenAIMessage(c.message.role, c.message.content,
                                         c.message.tool_calls, c.message.tool_call_id,
                                         c.message.name),
                         finish_reason |-> c.finish_reason]],
     usage   |-> IF copilot_response.usage # << >>
                 THEN copilot_response.usage[1]
                 ELSE CopilotUsage(0, 0, 0)]

\* A panic of the handler's task.
Panic(message) == [ok |-> FALSE, panic |-> message]

\* serde_json::from_str(arguments).unwrap_or_default() on the argument texts
\* of UpstreamShapes: the parsed object, or Value::Null.
parse_or_default(arguments) ==
    IF arguments = "{}" THEN [json |-> "object"] ELSE [json |-> "null"]

RECURSIVE tool_defs(_, _)
tool_defs(choices, n) ==
    IF n = 0 THEN << >>
    ELSE LET calls == IF choices[n].message.tool_calls # << >>
                      THEN choices[n].message.tool_calls[1] ELSE << >>
         IN  tool_defs(choices, n - 1)
                \o [j \in 1 .. Len(calls) |->
                      [name |-> calls[j].function.name,
                       parameters |-> parse_or_default(calls[j].function.arguments),
                       strict |-> TRUE, kind |-> calls[j].tool_type,
                       description |-> ""]]

\* impl From<CopilotChatResponse> for CompletionResponse.  tool_calls[0]
\* panics on an empty Vec.
CompletionResponse(resp) ==
    IF \E i \in DOMAIN resp.choices :
          resp.choices[i].message.tool_calls = Some(<< >>)
    THEN Panic("index out of bounds")
    ELSE Ok([id |-> resp.id,
             object |-> "response",
             created_at |-> unwrap_or(resp.created, 0),
             status |-> "completed",
             model |-> resp.model,
             usage |-> IF resp.usage = << >> THEN << >>
                       ELSE Some([input_tokens |-> resp.usage[1].prompt_tokens,
                                  output_tokens |-> resp.usage[1].completion_tokens,
                                  total_tokens |-> resp.usage[1].total_tokens]),
             output |-> [i \in 1 .. Len(resp.choices) |->
                           LET msg == resp.choices[i].message IN
                           IF msg.tool_calls # << >>
                           THEN LET tc == msg.tool_calls[1][1]
                                IN  [type |-> "function_call",
                                     id |-> unwrap_or(tc.id, ""),
                                     arguments |-> tc.function.arguments,
                                     call_id |-> unwrap_or(msg.tool_call_id, ""),
                                     name |-> tc.function.name,
                                     status |-> "completed"]
                           ELSE [type |-> "message",
                                 id |-> <<resp.id, "-", format(i - 1)>>,
                                 role |-> "assistant",
                                 status |-> "completed",
                                 content |->
                                    <<IF msg.content # << >>
                                      THEN [type |-> "output_text", text |-> msg.content[1]]
                                      ELSE [type |-> "refusal", refusal |-> "No content"]>>]],
             tools |-> tool_defs(resp.choices, Len(resp.choices))])

\* chrono's to_rfc3339 of a unix time: the text that denotes that second.
to_rfc3339(secs) == [rfc3339 |-> secs]

\* The description of the request's first tool of that name, if any.
find_description(tools, name) ==
    IF tools = << >> THEN << >>
    ELSE LET hits == {j \in DOMAIN tools[1] : tools[1][j].function.name = name}
         IN  IF hits = {} THEN << >>
             ELSE tools[1][CHOOSE j \in hits : \A k \in hits : j <= k].function.description

OllamaResponseOf(copilot_request, copilot, choice, clock) ==
    Ok([model |-> copilot_request.model,
        created_at |-> to_rfc3339(unwrap_or(copilot.created, clock)),
        message |->
           [role |-> choice.message.role,
            content |-> unwrap_or(choice.message.content, ""),
            thinking |-> << >>,
            tool_calls |->
               IF choice.message.tool_calls = << >> THEN << >>
               ELSE Some([i \in 1 .. Len(choice.message.tool_calls[1]) |->
                            LET tool == choice.message.tool_calls[1][i]
                            IN  [id |-> unwrap_or(tool.id, format(i - 1)),
                                 function |->
                                    [name |-> tool.function.name,
                                     description |->
                                        find_description(copilot_request.tools,
                                                         tool.function.name),
                                     arguments |-> tool.function.arguments]]]),
            images |-> << >>],
        done |-> TRUE,
        done_reason |-> Some(choice.finish_reason),
        total_duration |-> << >>,
        load_duration |-> << >>,
        prompt_eval_count |-> IF copilot.usage # << >>
                              THEN Some(copilot.usage[1].prompt_tokens) ELSE << >>,
        prompt_eval_duration |-> << >>,
        eval_count |-> IF copilot.usage # << >>
                       THEN Some(copilot.usage[1].completion_tokens) ELSE << >>,
        eval_duration |-> << >>])

\* transform_to_ollama_response reading the last choice.
transform_to_ollama_response_last(copilot_request, copilot, clock) ==
    IF copilot.choices = << >>
    THEN Err("No choices in Copilot response")
    ELSE OllamaResponseOf(copilot_request, copilot,
                          copilot.choices[Len(copilot.choices)], clock)

transform_to_ollama_response(copilot_request, copilot, clock) ==
    IF copilot.choices = << >>
    THEN Err("No choices in Copilot response")
    ELSE OllamaResponseOf(copilot_request, copilot, copilot.choices[1], clock)

ResponseInit ==
    /\ r_route \in Routes
    /\ r_request \in SentRequests
    /\ r_upstream \in UpstreamResponses
    /\ r_clock \in Clocks
    /\ r_out = << >>

ResponseParked ==
    /\ r_route = "chat_completions"
    /\ r_request = [model |-> "gpt-4", tools |-> << >>]
    /\ r_upstream = [id |-> "chatcmpl-1", created |-> << >>, model |-> "gpt-4-0613",
                     choices |-> << >>, usage |-> << >>]
    /\ r_clock = 0
    /\ r_out = Some(Err("parked"))

Convert(route, outcome) ==
    /\ r_route = route
    /\ r_out = << >>
    /\ r_out' = Some(outcome)
    /\ UNCHANGED <<r_route, r_request, r_upstream, r_clock>>
    /\ UNCHANGED <<authVars, normVars, handlerVars, streamVars>>

ConvertOpenAI == Convert("chat_completions", Ok(OpenAIChatResponse(r_upstream, r_clock)))

ConvertResponses == Convert("responses", CompletionResponse(r_upstream))

ConvertOllama ==
    Convert("ollama_chat", transform_to_ollama_response(r_request, r_upstream, r_clock))

ResponseNext == ConvertOpenAI \/ ConvertResponses \/ ConvertOllama

(***************************************************************************)
(* The streaming transcoders.  When the client asks for a stream, each     *)
(* handler reads the upstream body as a stream of byte chunks, splits      *)
(* every chunk with text.lines() and hands the lines, in order, to its     *)
(* translate_sse_line; what that returns is flattened into the stream sent *)
(* to the client.  A byte chunk is taken to hold whole lines (the comment  *)
(* of ollama_chat: "each Copilot SSE chunk may carry one or more           *)
(* data: <json> lines"), so a stream is its sequence of lines.             *)
(*                                                                         *)
(* Every call of a streaming handler builds its own closure: the Responses *)
(* handler moves three fresh Strings into it, the Ollama handler a clone   *)
(* of the request's model.  Several streams run side by side on the        *)
(* runtime; t_* are indexed by the stream.                                 *)
(*                                                                         *)
(* A text is the sequence of the pieces it was put together from:          *)
(* String::new() is << >> and push_str appends.                            *)
(***************************************************************************)
Streams == {1, 2}

MaxLines == 3

MaxConcurrentLines == 2

\* A line of the upstream body: one that starts with "data: ", given by what
\* follows the prefix, or any other line, given by its text.
RawLine(text)     == [data |-> FALSE, text |-> text]
DataLine(payload) == [data |-> TRUE, payload |-> payload]

\* A strip_prefix that takes a line without the prefix for its own payload.
strip_prefix_any(line) ==
    IF line.data THEN Some(line.payload) ELSE Some([json |-> FALSE, text |-> line.text])

\* line.strip_prefix("data: ")
strip_prefix(line) ==
    IF line.data THEN Some(line.payload) ELSE << >>

\* line.trim() of the raw lines of the model
trim(text) == IF text \in {"", "  "} THEN "" ELSE text

\* What follows the prefix: a text that is no JSON value, or a JSON value.
TextPayload(text)  == [json |-> FALSE, text |-> text]
JsonPayload(value) == [json |-> TRUE, value |-> value]

DONE == TextPayload("[DONE]")

\* The JSON objects the upstream sends as chunks.  A key may be absent
\* (<< >>); a choice always has its delta, whose content may be absent.
ChoiceJson(content) == [delta |-> [content |-> content]]
ChunkJson(id, model, choices) == [id |-> id, model |-> model, choices |-> choices]

HelloChunk == ChunkJson(Some("r1"), Some("gpt-4o"),
                        Some(<<ChoiceJson(Some(<<"Hello">>))>>))
WorldChunk == ChunkJson(Some("r1"), Some("gpt-4o"),
                        Some(<<ChoiceJson(Some(<<" world">>))>>))
RoleChunk  == ChunkJson(Some("r1"), Some("gpt-4o"), Some(<<ChoiceJson(<< >>)>>))
NoChoicesChunk == ChunkJson(Some("r1"), Some("gpt-4o"), Some(<< >>))
EmptyIdChunk == ChunkJson(Some(""), Some(""),
                          Some(<<ChoiceJson(Some(<<"Hi">>))>>))
NoIdChunk  == ChunkJson(<< >>, << >>, Some(<<ChoiceJson(Some(<<"Hey">>))>>))
NoChoicesKeyChunk == ChunkJson(Some("r1"), Some("gpt-4o"), << >>)
TwoChoicesChunk == ChunkJson(Some("r1"), Some("gpt-4o"),
                             Some(<<ChoiceJson(Some(<<"A">>)),
                                    ChoiceJson(Some(<<"B">>))>>))

UpstreamChunks ==
    {HelloChunk, WorldChunk, RoleChunk, NoChoicesChunk, EmptyIdChunk,
     NoIdChunk, NoChoicesKeyChunk, TwoChoicesChunk}

UpstreamLines ==
    {RawLine(""), RawLine("  "), RawLine("event: ping"),
     DataLine(DONE), DataLine(TextPayload("")), DataLine(TextPayload("{bad"))}
    \cup {DataLine(JsonPayload(c)) : c \in UpstreamChunks}

\* The lines of the streams that run side by side.
ConcurrentLines ==
    {DataLine(JsonPayload(HelloChunk)), DataLine(JsonPayload(WorldChunk)),
     DataLine(DONE)}

RequestModels == {"llama3", "gpt-4o"}

(***************************************************************************)
(* /v1/chat/completions: the passthrough.                                  *)
(***************************************************************************)
Data(payload)   == [kind |-> "Data", payload |-> payload]
Skip            == [kind |-> "Skip"]
Unexpected(raw) == [kind |-> "Unexpected", raw |-> raw]

\* The passthrough with the terminal sentinel kept back.
chat_translate_sse_line_drop_done(line) ==
    LET payload == strip_prefix(line)
    IN  IF payload # << >> /\ payload[1] # DONE THEN Data(payload[1])
        ELSE IF payload # << >> THEN Skip
        ELSE IF trim(line.text) = "" THEN Skip
        ELSE Unexpected(line.text)

\* chat_completion.rs translate_sse_line
chat_translate_sse_line(line) ==
    LET payload == strip_prefix(line)
    IN  IF payload # << >> THEN Data(payload[1])
        ELSE IF trim(line.text) = "" THEN Skip
        ELSE Unexpected(line.text)

\* Event::default().data(payload)
SseData(payload) == [data |-> payload]

(***************************************************************************)
(* /v1/responses: the Responses-API transcoder.                            *)
(***************************************************************************)
\* serde_json::from_str::<CopilotChunk>: id, model and choices are required.
parse_CopilotChunk(payload) ==
    IF /\ payload.json
       /\ payload.value.id # << >>
       /\ payload.value.model # << >>
       /\ payload.value.choices # << >>
    THEN Ok([id |-> payload.value.id[1], model |-> payload.value.model[1],
             choices |-> payload.value.choices[1]])
    ELSE Err("Could not parse Copilot SSE chunk as JSON")

make_event(event_type, event) == [event |-> event_type, data |-> event]

make_in_progress_response(id, model, created_at) ==
    [id |-> id, object |-> "response", created_at |-> created_at,
     status |-> "in_progress", model |-> model, usage |-> << >>,
     output |-> << >>, tools |-> << >>]

make_empty_output_message(id) ==
    [id |-> id, role |-> "assistant", status |-> "in_progress", content |-> << >>]

ContentPartText(text) == [type |-> "output_text", text |-> text]

RECURSIVE push_all(_, _, _)
\* accumulated_text after push_str of the deltas of the first n choices
push_all(accumulated_text, choices, n) ==
    IF n = 0 THEN accumulated_text
    ELSE push_all(accumulated_text, choices, n - 1) \o choices[n].delta.content[1]

\* emit_delta_events that forgets to accumulate.
emit_delta_events_no_push(chunk, response_id, accumulated_text) ==
    LET has_delta(choice) == unwrap_or(choice.delta.content, << >>) # << >>
        kept == SelectSeq(chunk.choices, has_delta)
    IN  [accumulated_text |-> accumulated_text,
         events |-> [i \in 1 .. Len(kept) |->
                       make_event("response.output_text.delta",
                                  [item_id |-> response_id, output_index |-> 0,
                                   content_index |-> 0,
                                   delta |-> kept[i].delta.content[1]])]]

\* emit_delta_events that sends a delta for every choice, empty or not.
emit_delta_events_every_choice(chunk, response_id, accumulated_text) ==
    LET has_delta(choice) == unwrap_or(choice.delta.content, << >>) # << >>
        kept == SelectSeq(chunk.choices, has_delta)
    IN  [accumulated_text |-> push_all(accumulated_text, kept, Len(kept)),
         events |-> [i \in 1 .. Len(chunk.choices) |->
                       make_event("response.output_text.delta",
                                  [item_id |-> response_id, output_index |-> 0,
                                   content_index |-> 0,
                                   delta |-> unwrap_or(chunk.choices[i].delta.content,
                                                       << >>)])]]

\* emit_delta_events: one delta event per choice whose content is present and
\* not empty, each pushed onto accumulated_text.
emit_delta_events(chunk, response_id, accumulated_text) ==
    LET has_delta(choice) == unwrap_or(choice.delta.content, << >>) # << >>
        kept == SelectSeq(chunk.choices, has_delta)
    IN  [accumulated_text |-> push_all(accumulated_text, kept, Len(kept)),
         events |-> [i \in 1 .. Len(kept) |->
                       make_event("response.output_text.delta",
                                  [item_id |-> response_id, output_index |-> 0,
                                   content_index |-> 0,
                                   delta |-> kept[i].delta.content[1]])]]

\* emit_completed_events that sends nothing for a response that never opened.
emit_completed_events_opened_only(created_at, response_id, response_model, accumulated_text) ==
    IF response_id = "" THEN << >>
    ELSE << make_event("response.output_text.done",
                       [item_id |-> response_id, output_index |-> 0,
                        content_index |-> 0, text |-> accumulated_text]),
            make_event("response.content_part.done",
                       [item_id |-> response_id, output_index |-> 0,
                        content_index |-> 0,
                        part |-> ContentPartText(accumulated_text)]),
            make_event("response.output_item.done",
                       [output_index |-> 0,
                        item |-> [id |-> response_id, role |-> "assistant",
                                  status |-> "completed",
                                  content |-> <<[type |-> "output_text",
                                                 text |-> accumulated_text]>>]]),
            make_event("response.completed",
                       [response |-> [id |-> response_id, object |-> "response",
                                      created_at |-> created_at,
                                      status |-> "completed",
                                      model |-> response_model, usage |-> << >>,
                                      output |-> << >>, tools |-> << >>]]) >>

\* emit_completed_events: the four terminal events, each carrying the text
\* accumulated so far.
emit_completed_events(created_at, response_id, response_model, accumulated_text) ==
    LET full_text == accumulated_text
        finished_message ==
            [id |-> response_id, role |-> "assistant", status |-> "completed",
             content |-> <<[type |-> "output_text", text |-> full_text]>>]
        completed_response ==
            [id |-> response_id, object |-> "response", created_at |-> created_at,
             status |-> "completed", model |-> response_model, usage |-> << >>,
             output |-> <<finished_message>>, tools |-> << >>]
    IN  << make_event("response.output_text.done",
                      [item_id |-> response_id, output_index |-> 0,
                       content_index |-> 0, text |-> full_text]),
           make_event("response.content_part.done",
                      [item_id |-> response_id, output_index |-> 0,
                       content_index |-> 0, part |-> ContentPartText(full_text)]),
           make_event("response.output_item.done",
                      [output_index |-> 0, item |-> finished_message]),
           make_event("response.completed", [response |-> completed_response]) >>

\* What a call leaves in the three Strings it was given, and what it returns.
Translated(response_id, response_model, accumulated_text, events) ==
    [response_id |-> response_id, response_model |-> response_model,
     accumulated_text |-> accumulated_text, events |-> events]

\* The opening events of a stream.
OpenEvents(response_id, response_model, created_at) ==
    << make_event("response.created",
                  [response |-> make_in_progress_response(response_id,
                                                          response_model,
                                                          created_at)]),
       make_event("response.output_item.added",
                  [output_index |-> 0,
                   item |-> make_empty_output_message(response_id)]),
       make_event("response.content_part.added",
                  [item_id |-> response_id, output_index |-> 0,
                   content_index |-> 0, part |-> ContentPartText(<< >>)]) >>

\* The transcoder opening the response at every chunk that has an id.
responses_translate_sse_line_reopen(line, created_at, response_id, response_model, accumulated_text) ==
    LET payload == strip_prefix(line)
        same    == Translated(response_id, response_model, accumulated_text, << >>)
    IN  IF payload = << >> THEN same
        ELSE IF payload[1] = DONE
        THEN [same EXCEPT !.events =
                emit_completed_events(created_at, response_id, response_model,
                                      accumulated_text)]
        ELSE LET parsed == parse_CopilotChunk(payload[1])
             IN  IF ~parsed.ok THEN same
                 ELSE LET chunk == parsed.value
                      IN  IF chunk.id # ""
                          THEN LET deltas == emit_delta_events(chunk, chunk.id,
                                                               accumulated_text)
                               IN  Translated(chunk.id, chunk.model,
                                              deltas.accumulated_text,
                                              OpenEvents(chunk.id, chunk.model,
                                                         created_at)
                                                \o deltas.events)
                          ELSE LET deltas == emit_delta_events(chunk, response_id,
                                                               accumulated_text)
                               IN  Translated(response_id, response_model,
                                              deltas.accumulated_text,
                                              deltas.events)

\* responses_chat.rs translate_sse_line
responses_translate_sse_line(line, created_at, response_id, response_model, accumulated_text) ==
    LET payload == strip_prefix(line)
        same    == Translated(response_id, response_model, accumulated_text, << >>)
    IN  IF payload = << >> THEN same
        ELSE IF payload[1] = DONE
        THEN [same EXCEPT !.events =
                emit_completed_events(created_at, response_id, response_model,
                                      accumulated_text)]
        ELSE LET parsed == parse_CopilotChunk(payload[1])
             IN  IF ~parsed.ok THEN same
                 ELSE LET chunk == parsed.value
                      IN  IF response_id = "" /\ chunk.id # ""
                          THEN LET deltas == emit_delta_events(chunk, chunk.id,
                                                               accumulated_text)
                               IN  Translated(chunk.id, chunk.model,
                                              deltas.accumulated_text,
                                              OpenEvents(chunk.id, chunk.model,
                                                         created_at)
                                                \o deltas.events)
                          ELSE LET deltas == emit_delta_events(chunk, response_id,
                                                               accumulated_text)
                               IN  Translated(response_id, response_model,
                                              deltas.accumulated_text,
                                              deltas.events)

(***************************************************************************)
(* /api/chat: the Ollama NDJSON transcoder.                                *)
(***************************************************************************)
\* from_str::<OpenAIStreamChunk> that takes any payload for a chunk.
parse_OpenAIStreamChunk_lenient(payload) ==
    IF payload.json /\ payload.value.choices # << >>
    THEN Ok([choices |-> payload.value.choices[1]])
    ELSE Ok([choices |-> << >>])

\* serde_json::from_str::<OpenAIStreamChunk>: choices is required, every
\* other key of the chunk is ignored.
parse_OpenAIStreamChunk(payload) ==
    IF payload.json /\ payload.value.choices # << >>
    THEN Ok([choices |-> payload.value.choices[1]])
    ELSE Err("Failed to parse Copilot SSE chunk")

Line(json) == [kind |-> "Line", line |-> json]

\* OllamaChatResponse of one line of the stream
OllamaChunk(model, clock, content, done, done_reason) ==
    [model |-> model, created_at |-> to_rfc3339(clock),
     message |-> [role |-> "assistant", content |-> content,
                  thinking |-> << >>, tool_calls |-> << >>, images |-> << >>],
     done |-> done, done_reason |-> done_reason,
     prompt_eval_count |-> << >>, eval_count |-> << >>]

\* chunk.choices.first().and_then(|c| c.delta.content.clone()).unwrap_or_default()
first_content(chunk) ==
    IF chunk.choices = << >> THEN << >>
    ELSE unwrap_or(chunk.choices[1].delta.content, << >>)

\* The transcoder naming the upstream's model where the chunk has one.
ollama_translate_sse_line_upstream_model(model, line, clock) ==
    LET payload == strip_prefix(line)
    IN  IF payload # << >>
        THEN IF payload[1] = DONE
             THEN Line(<<OllamaChunk(model, clock, << >>, TRUE, Some("stop")), "\n">>)
             ELSE LET parsed == parse_OpenAIStreamChunk(payload[1])
                  IN  IF parsed.ok
                      THEN Line(<<OllamaChunk(unwrap_or(payload[1].value.model, model),
                                              clock, first_content(parsed.value),
                                              FALSE, << >>), "\n">>)
                      ELSE Unexpected(payload[1])
        ELSE IF trim(line.text) = "" THEN Skip
        ELSE Unexpected(line.text)

\* server_ollama_chat.rs translate_sse_line; clock is chrono::Utc::now().
ollama_translate_sse_line(model, line, clock) ==
    LET payload == strip_prefix(line)
    IN  IF payload # << >>
        THEN IF payload[1] = DONE
             THEN Line(<<OllamaChunk(model, clock, << >>, TRUE, Some("stop")), "\n">>)
             ELSE LET parsed == parse_OpenAIStreamChunk(payload[1])
                  IN  IF parsed.ok
                      THEN Line(<<OllamaChunk(model, clock, first_content(parsed.value),
                                              FALSE, << >>), "\n">>)
                      ELSE Unexpected(payload[1])
        ELSE IF trim(line.text) = "" THEN Skip
        ELSE Unexpected(line.text)

(***************************************************************************)
(* The streams.                                                            *)
(***************************************************************************)
\* The streams start with nothing read and nothing sent; the accumulator of
\* a Responses stream is three empty Strings.
StreamsStart ==
    /\ t_clock \in Clocks
    /\ t_pos = [k \in Streams |-> 0]
    /\ t_response_id = [k \in Streams |-> ""]
    /\ t_response_model = [k \in Streams |-> ""]
    /\ t_accumulated_text = [k \in Streams |-> << >>]
    /\ t_events = [k \in Streams |-> << >>]

\* One streaming request; the second stream has no line to read.
StreamInit ==
    /\ StreamsStart
    /\ \E route \in Routes :
       \E model \in IF route = "ollama_chat" THEN RequestModels ELSE {"gpt-4o"} :
       \E lines \in SeqsUpTo(UpstreamLines, MaxLines) :
          /\ t_route = [k \in Streams |-> IF k = 1 THEN route ELSE "chat_completions"]
          /\ t_model = [k \in Streams |-> IF k = 1 THEN model ELSE "gpt-4o"]
          /\ t_upstream = [k \in Streams |-> IF k = 1 THEN lines ELSE << >>]

\* Two streaming requests at a time, each on any route.
ConcurrentInit ==
    /\ StreamsStart
    /\ t_route \in [Streams -> Routes]
    /\ t_model = [k \in Streams |-> IF t_route[k] = "ollama_chat"
                                    THEN "llama3" ELSE "gpt-4o"]
    /\ t_upstream \in [Streams -> SeqsUpTo(ConcurrentLines, MaxConcurrentLines)]

MaxChunkLines == 2

\* The lines of the byte streams whose delivery is cut into chunks.
ChunkedLines ==
    {DataLine(JsonPayload(HelloChunk)), DataLine(DONE), RawLine("event: ping")}

\* Where a chunk boundary falls in the bytes of a line: at its end only, in
\* its first bytes (inside "data: " when the line has the prefix), or later
\* (inside the payload when the line has the prefix).
Cuts == {"whole", "early", "late"}

\* The bytes of a line before and after the boundary, as text.
bytes_before(line, cut) ==
    IF ~line.data THEN (IF cut = "early" THEN "ev" ELSE "event: p")
    ELSE IF cut = "early" THEN "da"
    ELSE IF line.payload.json THEN "data: {\"id\":\"r1\",\"mod"
    ELSE "data: [DO"

bytes_after(line, cut) ==
    IF ~line.data THEN (IF cut = "early" THEN "ent: ping" ELSE "ing")
    ELSE IF cut = "early"
         THEN (IF line.payload.json THEN "ta: {\"id\":\"r1\", ...}" ELSE "ta: [DONE]")
    ELSE IF line.payload.json THEN "el\":\"gpt-4o\", ...}"
    ELSE "NE]"

\* A line of text as the transcoders see it: with the prefix "data: " it is
\* given by what follows the prefix.
as_line(text) ==
    CASE text = "data: {\"id\":\"r1\",\"mod" -> DataLine(TextPayload("{\"id\":\"r1\",\"mod"))
      [] text = "data: [DO"                  -> DataLine(TextPayload("[DO"))
      [] OTHER                               -> RawLine(text)

\* String::from_utf8_lossy(&bytes).lines() over the chunks that hold the
\* bytes of one line: the lines of a chunk end where the chunk ends, and
\* nothing of a chunk is kept for the next one.
chunk_lines(line, cut) ==
    IF cut = "whole" THEN <<line>>
    ELSE <<as_line(bytes_before(line, cut)), as_line(bytes_after(line, cut))>>

RECURSIVE lines_of_chunks(_, _, _)
\* The lines the closure sees of the first n lines of a byte stream cut as
\* cuts says.
lines_of_chunks(bytes, cuts, n) ==
    IF n = 0 THEN << >>
    ELSE lines_of_chunks(bytes, cuts, n - 1) \o chunk_lines(bytes[n], cuts[n])

\* Two deliveries of the same bytes to the same route: the first in chunks
\* that end with a line, the second in chunks cut as cuts says.
ChunksInit ==
    /\ StreamsStart
    /\ \E route \in Routes :
       \E bytes \in SeqsUpTo(ChunkedLines, MaxChunkLines) :
       \E cuts \in [1 .. Len(bytes) -> Cuts] :
          /\ t_route = [k \in Streams |-> route]
          /\ t_model = [k \in Streams |-> IF route = "ollama_chat"
                                           THEN "llama3" ELSE "gpt-4o"]
          /\ t_upstream = [k \in Streams |->
                              IF k = 1 THEN bytes
                              ELSE lines_of_chunks(bytes, cuts, Len(bytes))]

StreamParked ==
    /\ t_clock = 0
    /\ t_route = [k \in Streams |-> "chat_completions"]
    /\ t_model = [k \in Streams |-> "gpt-4o"]
    /\ t_upstream = [k \in Streams |-> << >>]
    /\ t_pos = [k \in Streams |-> 0]
    /\ t_response_id = [k \in Streams |-> ""]
    /\ t_response_model = [k \in Streams |-> ""]
    /\ t_accumulated_text = [k \in Streams |-> << >>]
    /\ t_events = [k \in Streams |-> << >>]

\* The next line of stream k.
NextLine(k) == t_upstream[k][t_pos[k] + 1]

\* Stream k of route has a line left; the line is read.
ReadLine(k, route) ==
    /\ t_route[k] = route
    /\ t_pos[k] < Len(t_upstream[k])
    /\ t_pos' = [t_pos EXCEPT ![k] = @ + 1]
    /\ UNCHANGED <<t_clock, t_route, t_model, t_upstream>>
    /\ UNCHANGED <<authVars, normVars, handlerVars, responseVars>>

\* The streaming branch of chat_completions on the next line of stream k.
chat_completions_sse(k) ==
    /\ ReadLine(k, "chat_completions")
    /\ LET out == chat_translate_sse_line(NextLine(k))
       IN  t_events' = [t_events EXCEPT ![k] =
                          IF out.kind = "Data"
                          THEN Append(@, SseData(out.payload)) ELSE @]
    /\ UNCHANGED <<t_response_id, t_response_model, t_accumulated_text>>

\* The streaming branch of ollama_chat on the next line of stream k.
ollama_chat_sse(k) ==
    /\ ReadLine(k, "ollama_chat")
    /\ LET out == ollama_translate_sse_line(t_model[k], NextLine(k), t_clock)
       IN  t_events' = [t_events EXCEPT ![k] =
                          IF out.kind = "Line" THEN Append(@, out.line) ELSE @]
    /\ UNCHANGED <<t_response_id, t_response_model, t_accumulated_text>>

\* openai_responses_chat_sse with one accumulator for all streams.
openai_responses_chat_sse_shared(k) ==
    /\ ReadLine(k, "responses")
    /\ LET out == responses_translate_sse_line(NextLine(k), t_clock,
                                               t_response_id[1],
                                               t_response_model[1],
                                               t_accumulated_text[1])
       IN  /\ t_response_id' = [t_response_id EXCEPT ![1] = out.response_id]
           /\ t_response_model' = [t_response_model EXCEPT ![1] = out.response_model]
           /\ t_accumulated_text' =
                 [t_accumulated_text EXCEPT ![1] = out.accumulated_text]
           /\ t_events' = [t_events EXCEPT ![k] = @ \o out.events]

\* openai_responses_chat_sse on the next line of stream k: the line is
\* translated against the Strings of this stream's closure.
openai_responses_chat_sse(k) ==
    /\ ReadLine(k, "responses")
    /\ LET out == responses_translate_sse_line(NextLine(k), t_clock,
                                               t_response_id[k],
                                               t_response_model[k],
                                               t_accumulated_text[k])
       IN  /\ t_response_id' = [t_response_id EXCEPT ![k] = out.response_id]
           /\ t_response_model' = [t_response_model EXCEPT ![k] = out.response_model]
           /\ t_accumulated_text' =
                 [t_accumulated_text EXCEPT ![k] = out.accumulated_text]
           /\ t_events' = [t_events EXCEPT ![k] = @ \o out.events]

StreamNext ==
    \/ \E k \in Streams : chat_completions_sse(k)
    \/ \E k \in Streams : ollama_chat_sse(k)
    \/ \E k \in Streams : openai_responses_chat_sse(k)

(***************************************************************************)
(* login.rs: the interactive login.                                        *)
(***************************************************************************)
\* get_access_token_path and get_token_path, within the storage directory
access_token_path == "access_token.json"
token_path        == "token.json"

StoragePaths == {access_token_path, token_path}

\* What GitHub can answer: the access tokens and the Copilot tokens.
AccessTokens  == {"gho_1", "gho_2"}
CopilotTokens == {"tid_1", "tid_2"}

\* The records a former login may have left.
FormerRecords ==
    [StoragePaths -> {<< >>, Some("former")}]

\* fs::create_dir_all and fs::write of a record: the record is written; or
\* the write fails and leaves the file as it was, or created and empty.
fs_write(files, path, record) ==
    {[result |-> Ok("()"), files |-> [files EXCEPT ![path] = Some(record)]],
     [result |-> Err("Failed to create storage directory"), files |-> files],
     [result |-> Err("Failed to write to disk"),
      files |-> [files EXCEPT ![path] = Some("")]]}

\* save_access_token that writes to the file of the Copilot token.
save_access_token_to_token_path(files, token) ==
    fs_write(files, token_path, token)

\* storage::save_access_token
save_access_token(files, token) ==
    fs_write(files, access_token_path, token)

\* storage::save_token
save_token(files, token) ==
    fs_write(files, token_path, token)

LoginInit ==
    /\ l_pc = "request_device_code"
    /\ l_calls = << >>
    /\ l_files \in FormerRecords
    /\ l_before = l_files
    /\ l_access = << >>
    /\ l_copilot = << >>

LoginParked ==
    /\ l_pc = "done"
    /\ l_calls = << >>
    /\ l_files = [path \in StoragePaths |-> << >>]
    /\ l_before = l_files
    /\ l_access = << >>
    /\ l_copilot = << >>

\* login is at call, makes it, and goes on to next when it returned Ok: the
\* `?` after every call returns the error from login.
LoginCall(call, ok, next) ==
    /\ l_pc = call
    /\ l_calls' = Append(l_calls, call)
    /\ l_pc' = IF ok THEN next ELSE "failed"
    /\ UNCHANGED l_before
    /\ UNCHANGED <<expiryVars, tokenVars, pollVars, dialectVars>>

\* Step 1: auth::request_device_code
request_device_code ==
    /\ \E ok \in BOOLEAN : LoginCall("request_device_code", ok, "spinner")
    /\ UNCHANGED <<l_files, l_access, l_copilot>>

\* spinner: the user presses ENTER, or the device code expires first.
spinner ==
    /\ l_pc = "spinner"
    /\ \E ok \in BOOLEAN : l_pc' = IF ok THEN "poll_for_access_token" ELSE "failed"
    /\ UNCHANGED <<l_calls, l_files, l_before, l_access, l_copilot>>
    /\ UNCHANGED <<expiryVars, tokenVars, pollVars, dialectVars>>

\* Step 2: auth::poll_for_access_token
login_poll_for_access_token ==
    /\ \E r \in {Ok(token) : token \in AccessTokens}
                 \cup {Err("expired_token"), Err("access_denied")} :
          /\ LoginCall("poll_for_access_token", r.ok, "save_access_token")
          /\ l_access' = Some(r)
    /\ UNCHANGED <<l_files, l_copilot>>

\* storage::save_access_token(&access_token_response)?
login_save_access_token ==
    /\ l_pc = "save_access_token"
    /\ \E w \in save_access_token(l_files, l_access[1].value) :
          /\ LoginCall("save_access_token", w.result.ok, "get_copilot_token")
          /\ l_files' = w.files
    /\ UNCHANGED <<l_access, l_copilot>>

\* Step 3: auth::get_copilot_token with the access token of step 2
login_get_copilot_token ==
    /\ \E r \in {Ok(token) : token \in CopilotTokens}
                 \cup {Err("Failed to send Copilot token request")} :
          /\ LoginCall("get_copilot_token", r.ok, "save_token")
          /\ l_copilot' = Some(r)
    /\ UNCHANGED <<l_files, l_access>>

\* storage::save_token(&copilot_token_response)?
login_save_token ==
    /\ l_pc = "save_token"
    /\ \E w \in save_token(l_files, l_copilot[1].value) :
          /\ LoginCall("save_token", w.result.ok, "done")
          /\ l_files' = w.files
    /\ UNCHANGED <<l_access, l_copilot>>

LoginNext ==
    \/ request_device_code
    \/ spinner
    \/ login_poll_for_access_token
    \/ login_save_access_token
    \/ login_get_copilot_token
    \/ login_save_token

DialectParked == NormParked /\ HandlerParked /\ ResponseParked /\ StreamParked

(***************************************************************************)
(* The specifications.                                                     *)
(***************************************************************************)
InitExpiry == ExpiryInit /\ TokenParked /\ PollParked /\ LoginParked
                 /\ DialectParked
InitToken  == ExpiryParked /\ TokenInit /\ PollParked /\ LoginParked
                 /\ DialectParked
InitPoll   == ExpiryParked /\ TokenParked /\ PollInit /\ LoginParked
                 /\ DialectParked

SpecExpiry == InitExpiry /\ [][ExpiryNext]_vars

SpecToken == InitToken /\ [][TokenNext]_vars

SpecPoll == InitPoll /\ [][PollNext]_vars

InitLogin == ExpiryParked /\ TokenParked /\ PollParked /\ LoginInit
                /\ DialectParked

SpecLogin == InitLogin /\ [][LoginNext]_vars

AuthParked == ExpiryParked /\ TokenParked /\ PollParked /\ LoginParked

InitNormalize == AuthParked /\ NormInit /\ HandlerParked /\ ResponseParked
                    /\ StreamParked

InitHandler == AuthParked /\ NormParked /\ HandlerInit /\ ResponseParked
                    /\ StreamParked

InitResponse == AuthParked /\ NormParked /\ HandlerParked /\ ResponseInit
                    /\ StreamParked

SpecResponse == InitResponse /\ [][ResponseNext]_vars

SpecHandler == InitHandler /\ [][HandlerNext]_vars

SpecNormalize == InitNormalize /\ [][NormNext]_vars

InitToolTurns == AuthParked /\ ToolTurnsInit /\ HandlerParked /\ ResponseParked
                    /\ StreamParked

SpecToolTurns == InitToolTurns /\ [][NormNext]_vars

InitStream == AuthParked /\ NormParked /\ HandlerParked /\ ResponseParked
                 /\ StreamInit

InitConcurrent == AuthParked /\ NormParked /\ HandlerParked /\ ResponseParked
                     /\ ConcurrentInit

SpecStream == InitStream /\ [][StreamNext]_vars

SpecConcurrent == InitConcurrent /\ [][StreamNext]_vars

InitChunks == AuthParked /\ NormParked /\ HandlerParked /\ ResponseParked
                 /\ ChunksInit

SpecChunks == InitChunks /\ [][StreamNext]_vars

(***************************************************************************)
(* Properties: the expiry check.                                           *)
(***************************************************************************)

\* C2: is_token_expired(token) at time now returns true exactly when
\* token.expires_at <= now + 60: true for expires_at <= now, true for
\* expires_at in (now, now+60], false for expires_at > now+60; and the
\* result is the same whatever refresh_in the token carries.
C2_ExpiredIffWithinBuffer ==
    e_result # << >> =>
        LET r == e_result[1]
            x == e_token.expires_at
        IN  /\ (x <= e_now => r)
            /\ ((e_now < x /\ x <= e_now + ExpiryBuffer) => r)
            /\ (x > e_now + ExpiryBuffer => ~r)
            /\ \A ri \in RefreshIns :
                 is_token_expired([e_token EXCEPT !.refresh_in = ri], e_now) = r

\* C2 witness: the check has answered true for a token that expires exactly
\* at now + 60, the last second of the buffer.
C2_Witness ==
    /\ e_result = <<TRUE>>
    /\ e_token.expires_at = e_now + ExpiryBuffer
    /\ e_token.refresh_in > 0

(***************************************************************************)
(* Properties: the token manager.                                          *)
(***************************************************************************)
Usable(file, t) == file.kind = "Json" /\ file.json.expires_at > t + ExpiryBuffer

\* A step of caller c that is not its save step leaves both files alone.
ReadOnlyBeforeSave(c) ==
    (pc'[c] # pc[c] /\ pc[c] # "save") =>
        /\ UNCHANGED <<tokenFile, accessFile>>
        /\ wrote'[c] = wrote[c]

\* C1: every ServiceToken get_valid_token returns, from the cache or from a
\* fresh exchange, has expires_at > now + 60 at the moment it is returned.
C1_ReturnedTokenNotExpired ==
    [][\A c \in Callers :
         (result[c] = NoResult /\ result'[c].kind = "Ok") =>
             result'[c].token.expires_at > now' + ExpiryBuffer]_vars

\* C3: when the token get_valid_token loads from the store passes the
\* expiry-buffer check, the call returns exactly that token, sends no
\* exchange request and leaves both store records unchanged.
C3_CacheHitReturnsCachedToken ==
    /\ [][\A c \in Callers :
            /\ ReadOnlyBeforeSave(c)
            /\ (pc[c] = "load" /\ pc'[c] # "load" /\ Usable(tokenFile, now)) =>
                 /\ pc'[c] = "done"
                 /\ result'[c] = Returned(tokenFile.json)
                 /\ sent'[c] = 0
                 /\ wrote'[c] = 0
                 /\ UNCHANGED <<tokenFile, accessFile, exchanges>>]_vars
    /\ [](\A c \in Callers :
            (pc[c] = "done" /\ result[c].kind = "Ok" /\ sent[c] = 0) => wrote[c] = 0)

\* C3 witness: a caller has returned the token the store holds without
\* having sent an exchange request.
C3_Witness ==
    \E c \in Callers :
        /\ pc[c] = "done"
        /\ result[c].kind = "Ok"
        /\ sent[c] = 0
        /\ tokenFile = FileOf(result[c].token)

\* C4: with no usable cached ServiceToken (absent, unparseable or expired)
\* and no access credential in the store, get_valid_token fails with
\* LoginRequired, sends no exchange request and writes nothing to the store.
C4_LoginRequiredWithoutCredential ==
    /\ [][\A c \in Callers :
            /\ ReadOnlyBeforeSave(c)
            /\ (pc[c] = "idle" /\ pc'[c] # "idle" /\ ~token_exists) => pc'[c] = "access"
            /\ (pc[c] = "load" /\ pc'[c] # "load" /\ ~Usable(tokenFile, now)) =>
                 pc'[c] = "access"
            /\ (pc[c] = "access" /\ pc'[c] # "access" /\ accessFile = NoFile) =>
                 /\ pc'[c] = "done"
                 /\ result'[c] = Failed(LoginRequired)
                 /\ UNCHANGED <<tokenFile, accessFile, exchanges, sent>>]_vars
    /\ [](\A c \in Callers :
            result[c] = Failed(LoginRequired) => (sent[c] = 0 /\ wrote[c] = 0))

\* C4 witness: a call has ended in LoginRequired with no access credential
\* in the store.
C4_Witness ==
    \E c \in Callers :
        /\ pc[c] = "done"
        /\ result[c] = Failed(LoginRequired)
        /\ accessFile = NoFile
        /\ exchanges = 0

\* C5: whenever get_valid_token returns after a successful exchange, the
\* token it returns is the token the exchange produced, and the save step
\* has put that token into the store's service-token record, on every
\* refresh.
C5_RefreshPersistsAndReturns ==
    /\ [][\A c \in Callers :
            (pc[c] = "save" /\ result'[c].kind = "Ok") =>
                /\ reply[c].kind = "http"
                /\ is_success(reply[c].status)
                /\ result'[c].token = reply[c].body
                /\ tokenFile' = FileOf(reply[c].body)]_vars
    /\ [](\A c \in Callers :
            (result[c].kind = "Ok" /\ sent[c] > 0) =>
                (wrote[c] = 1 /\ result[c].token = reply[c].body))

\* C5 witness: two refreshes have succeeded, each caller holds the token
\* minted for it, and the store holds the token of the later one.
C5_Witness ==
    \E c, d \in Callers :
        /\ c # d
        /\ result[c].kind = "Ok" /\ sent[c] = 1 /\ wrote[c] = 1
        /\ result[d].kind = "Ok" /\ sent[d] = 1 /\ wrote[d] = 1
        /\ result[c].token.token < result[d].token.token
        /\ tokenFile = FileOf(result[d].token)

\* C6: when the exchange fails (transport failure, non-success status or
\* unparseable body), get_valid_token returns the refresh failure and the
\* caller has changed neither store record.
FailingReply(r) ==
    \/ r.kind = "transport"
    \/ r.kind = "http" /\ (r.status < 200 \/ r.status > 299)
    \/ r.kind = "http" /\ r.body = Garbage

C6_ExchangeFailureLeavesStore ==
    /\ [][\A c \in Callers :
            /\ ReadOnlyBeforeSave(c)
            /\ (pc[c] = "await" /\ pc'[c] # "await" /\ FailingReply(reply'[c])) =>
                 /\ pc'[c] = "done"
                 /\ result'[c] = Failed(RefreshFailed)
                 /\ UNCHANGED <<tokenFile, accessFile>>]_vars
    /\ [](\A c \in Callers :
            (pc[c] \in {"save", "done"} /\ sent[c] > 0 /\ FailingReply(reply[c])) =>
                (pc[c] = "done" /\ result[c] = Failed(RefreshFailed) /\ wrote[c] = 0))

\* C6 witness: an exchange answered with a non-success status has ended the
\* call in the refresh failure while the store still holds its old token.
C6_Witness ==
    \E c \in Callers :
        /\ pc[c] = "done"
        /\ result[c] = Failed(RefreshFailed)
        /\ reply[c].kind = "http" /\ reply[c].status = 401 /\ reply[c].body # Garbage
        /\ tokenFile.kind = "Json" /\ tokenFile.json.token = 0

\* C7: no mutual exclusion guards the refresh path: a caller that has
\* decided to refresh can send its exchange request, and a caller that has
\* its fresh token can write it, whatever the other callers are doing; every
\* caller on the refresh path sends a request of its own.
RECURSIVE SumTo(_, _)
SumTo(f, n) == IF n = 0 THEN 0 ELSE f[n] + SumTo(f, n - 1)

C7_NoMutualExclusionOnRefresh ==
    /\ \A c \in Callers : pc[c] = "exchange" => ENABLED SendExchange(c)
    /\ \A c \in Callers : pc[c] = "save" => ENABLED SaveToken(c)
    /\ \A c \in Callers : sent[c] = IF pc[c] \in {"await", "save"} \/ reply[c] # NoReply
                                    THEN 1 ELSE 0
    /\ exchanges = SumTo(sent, NumCallers)

\* C7 witness: all callers found no usable token, each has sent its own
\* exchange request and holds its own fresh token, and none has written yet:
\* N exchanges for N callers, with N writes to the store about to follow.
C7_Witness ==
    /\ exchanges = NumCallers
    /\ \A c \in Callers : pc[c] = "save" /\ sent[c] = 1 /\ wrote[c] = 0
    /\ \A c, d \in Callers : c # d => reply[c].body.token # reply[d].body.token
    /\ \A c \in Callers : ENABLED SaveToken(c)

(***************************************************************************)
(* Properties: device-flow polling.                                        *)
(***************************************************************************)
IsErrorAnswer(a, code) ==
    /\ a.kind = "http"
    /\ a.body.error = code
    /\ a.body.error_description # Absent
    /\ a.body.error_uri # Absent

IsSuccessAnswer(a) ==
    /\ a.kind = "http"
    /\ a.body.error = Absent
    /\ a.body.access_token # Absent /\ a.body.token_type # Absent /\ a.body.scope # Absent

C9_SlowDownRaisesInterval ==
    \A i \in 1 .. Len(sleeps) :
        IsErrorAnswer(answers[i], "slow_down") =>
            /\ sleeps[i] >= interval + SlowDownExtra
            /\ \A j \in (i + 1) .. Len(sleeps) :
                 IsErrorAnswer(answers[j], "authorization_pending") =>
                     sleeps[j] >= interval + SlowDownExtra

\* C10: an error object with code expired_token ends the call with
\* ExpiredDeviceCode, access_denied ends it with AccessDenied, and any other
\* code but authorization_pending and slow_down ends it with PollError
\* carrying the code and the description; no sleep and no poll request
\* follows such an answer.
PollFailure(b) ==
    CASE b.error = "expired_token" -> Failed("ExpiredDeviceCode")
      [] b.error = "access_denied" -> Failed("AccessDenied")
      [] OTHER -> [kind |-> "Err", error |-> "PollError", code |-> b.error,
                   description |-> b.error_description]

IsRetryAnswer(a) ==
    IsErrorAnswer(a, "authorization_pending") \/ IsErrorAnswer(a, "slow_down")

IsTerminalErrorAnswer(a) ==
    /\ \E code \in ErrorCodes : IsErrorAnswer(a, code)
    /\ ~IsRetryAnswer(a)

C11_ReturnsOnlyOnTerminalAnswer ==
    p_pc = "done" =>
        LET a == answers[Len(answers)] IN
            a.kind = "transport" \/ IsSuccessAnswer(a) \/ IsTerminalErrorAnswer(a)

\* C11 (amended): the loop has no deadline of its own: while every answer so
\* far is authorization_pending or slow_down the function has not returned
\* and its next step is ready, however many polls it has made; it returns
\* only on a success object, a terminal error code, a transport failure, or
\* a body that parses neither as an error object nor as a success object.
IsUnparseableAnswer(a) ==
    /\ a.kind = "http"
    /\ a.body.error = Absent \/ a.body.error_description = Absent \/ a.body.error_uri = Absent
    /\ a.body.access_token = Absent \/ a.body.token_type = Absent \/ a.body.scope = Absent

C11_NoInternalDeadline ==
    LET n == Len(answers) IN
    /\ (\A i \in 1 .. n : IsRetryAnswer(answers[i])) =>
          /\ p_pc # "done"
          /\ p_result = NoResult
          /\ Len(sleeps) = n
          /\ p_pc = "top" /\ polls < MaxPolls => ENABLED PollSend
          /\ p_pc = "inflight" => ENABLED PollRecv
          /\ p_pc = "sleeping" => ENABLED PollWake
    /\ p_pc = "done" =>
          /\ n >= 1
          /\ \A i \in 1 .. n - 1 : IsRetryAnswer(answers[i])
          /\ \/ answers[n].kind = "transport"
             \/ IsSuccessAnswer(answers[n])
             \/ IsTerminalErrorAnswer(answers[n])
             \/ IsUnparseableAnswer(answers[n])

\* C11 witness: the upstream has answered slow_down and authorization_pending
\* as often as the bound on polls allows, and the function is still waiting
\* to poll again.
C11_Witness ==
    /\ Len(answers) = MaxPolls
    /\ \A i \in 1 .. Len(answers) : IsRetryAnswer(answers[i])
    /\ \E i \in 1 .. Len(answers) : IsErrorAnswer(answers[i], "slow_down")
    /\ p_pc = "sleeping"
    /\ ENABLED PollWake

(***************************************************************************)
(* Properties: the request normalizer.                                     *)
(***************************************************************************)
ToolMessages(messages) == {i \in DOMAIN messages : messages[i].role = tool_role}

AssistantCalls(messages) ==
    {i \in DOMAIN messages :
        messages[i].role = assistant_role /\ messages[i].tool_calls # << >>}

\* C12: after ensure_tool_ids has run on a request in which a required id was
\* missing, the k-th tool-role message carries tool_call_id "k" and entry j of
\* every assistant message's tool_calls carries id "j" (counting as
\* enumerate() does), whatever ids the client had sent.
C12_AllEntriesRenumbered ==
    (n_runs = 1 /\ ~ids_present(n_original)) =>
        /\ \A i \in ToolMessages(n_messages) :
              n_messages[i].tool_call_id = Some(format(ToolIndex(n_messages, i)))
        /\ \A i \in AssistantCalls(n_messages) :
              \A j \in DOMAIN n_messages[i].tool_calls[1] :
                  n_messages[i].tool_calls[1][j].id = Some(format(j - 1))

\* Every id the request needs is there and is not the empty string.
EveryRequiredIdNonEmpty(messages) ==
    /\ \A i \in ToolMessages(messages) :
          messages[i].tool_call_id \notin {<< >>, Some("")}
    /\ \A i \in AssistantCalls(messages) :
          \A j \in DOMAIN messages[i].tool_calls[1] :
              messages[i].tool_calls[1][j].id \notin {<< >>, Some("")}

\* C13: a run of ensure_tool_ids on a request whose required ids are all
\* present and non-empty leaves the request as it was: ids, names, order and
\* contents of the messages.
C13_IdsPresentChangesNothing ==
    [][EveryRequiredIdNonEmpty(n_messages) => n_messages' = n_messages]_vars

C13_Witness ==
    /\ n_runs = 1
    /\ EveryRequiredIdNonEmpty(n_original)
    /\ \E i \in ToolMessages(n_original) : n_original[i].tool_call_id = Some("call_a")
    /\ \E i \in AssistantCalls(n_original) :
          /\ Len(n_original[i].tool_calls[1]) = 2
          /\ n_original[i].tool_calls[1][2].id = Some("call_b")
    /\ n_messages = n_original

\* C14: once prepare_for_copilot has run on a request, a further run leaves
\* the request as the first run left it.
C14_Idempotent ==
    [][n_runs >= 1 => n_messages' = n_messages]_vars

C14_Witness ==
    /\ n_runs = 2
    /\ n_messages # n_original
    /\ \E i \in ToolMessages(n_messages) : n_messages[i].tool_call_id = Some("0")
    /\ \E i \in ToolMessages(n_messages) : n_messages[i].tool_call_id = << >>

\* C15: after prepare_for_copilot has run, ids_present holds and every
\* tool-role message has a name.
C15_IdsPresentAfterNormalize ==
    n_runs >= 1 =>
        /\ ids_present(n_messages)
        /\ \A i \in ToolMessages(n_messages) : n_messages[i].name # << >>

(***************************************************************************)
(* Properties: the inbound handlers and the request converters.            *)
(***************************************************************************)
\* The texts of the client's items that a message of the canonical request
\* carries: its tool calls' names, or else its content.
ItemTexts(m) ==
    IF m.role = "system" THEN << >>
    ELSE IF m.tool_calls # << >>
    THEN [j \in 1 .. Len(m.tool_calls[1]) |-> m.tool_calls[1][j].function.name]
    ELSE IF m.content = << >> THEN << >>
    ELSE IF h_route = "responses" /\ m.role = "user" THEN <<m.content[1][1]>>
    ELSE <<m.content[1]>>

RECURSIVE CanonicalTexts(_, _)
CanonicalTexts(messages, n) ==
    IF n = 0 THEN << >>
    ELSE CanonicalTexts(messages, n - 1) \o ItemTexts(messages[n])

ClientItems == IF h_route = "responses" THEN h_body.input[1] ELSE h_body.messages[1]

\* The position in the client's request of the item that carries text.
ClientPosition(text) == CHOOSE i \in DOMAIN ClientItems : format(i) = text

\* C16: in the canonical request a handler sends upstream, the client's
\* messages or input items that appear at all appear in the order the
\* client gave them, for each of the three request converters.
C16_ConvertersKeepOrder ==
    h_copilot # << >> =>
        LET texts == CanonicalTexts(h_copilot[1].messages, Len(h_copilot[1].messages))
        IN  \A a, b \in DOMAIN texts :
                a < b => ClientPosition(texts[a]) < ClientPosition(texts[b])

\* The body is JSON of the shape the route's dialect expects: an object with
\* a model and a list of messages that each have a role, or (Responses) a
\* list of input items that each have a type.
StructurallyValid ==
    /\ h_body.syntax_ok
    /\ h_body.model # << >>
    /\ IF h_route = "responses"
       THEN /\ h_body.input # << >>
            /\ \A i \in DOMAIN h_body.input[1] : h_body.input[1][i].type # << >>
       ELSE /\ h_body.messages # << >>
            /\ \A i \in DOMAIN h_body.messages[1] : h_body.messages[1][i].role # << >>

\* C20: a body that does not parse into the dialect's shape is answered with
\* a 4xx status and nothing else happens for it: no call of get_token, no
\* request converted or sent upstream.
C20_BadBodyIsClientError ==
    (~StructurallyValid /\ h_pc # "received") =>
        /\ h_pc = "answered"
        /\ h_status # << >> /\ h_status[1] \in 400 .. 499
        /\ h_tokens = 0
        /\ h_upstream = 0
        /\ h_copilot = << >>

C20_Witness ==
    /\ h_route = "responses"
    /\ h_body.syntax_ok /\ h_body.model # << >> /\ h_body.input # << >>
    /\ \E i \in DOMAIN h_body.input[1] : h_body.input[1][i].type = << >>
    /\ h_pc = "answered"
    /\ h_status = Some(400)
    /\ h_tokens = 0

(***************************************************************************)
(* Properties: the response conversions.                                   *)
(***************************************************************************)
\* C17: the OpenAIChatResponse built from an upstream response has the
\* upstream's choices, as many and in the same order; choice i carries the
\* upstream's index where the upstream gave one and its position (from 0)
\* where not; created is the upstream's value where given and the clock at
\* the conversion, which is positive, where not.
C17_ChoicesIndexAndCreated ==
    (r_route = "chat_completions" /\ r_out # << >>) =>
        LET client   == r_out[1].value
            upstream == r_upstream
        IN  /\ Len(client.choices) = Len(upstream.choices)
            /\ \A i \in DOMAIN upstream.choices :
                  /\ client.choices[i].message.content
                        = upstream.choices[i].message.content
                  /\ client.choices[i].message.tool_calls
                        = upstream.choices[i].message.tool_calls
                  /\ client.choices[i].finish_reason
                        = upstream.choices[i].finish_reason
                  /\ client.choices[i].index =
                        IF upstream.choices[i].index # << >>
                        THEN upstream.choices[i].index[1] ELSE i - 1
            /\ client.created =
                  IF upstream.created # << >> THEN upstream.created[1] ELSE r_clock
            /\ upstream.created = << >> => client.created > 0

C17_Witness ==
    /\ r_route = "chat_completions"
    /\ r_out # << >>
    /\ Len(r_upstream.choices) = 2
    /\ r_upstream.choices[1].index = Some(5)
    /\ r_upstream.choices[2].index = << >>
    /\ r_upstream.choices[1].message # r_upstream.choices[2].message
    /\ r_upstream.created = << >>
    /\ r_out[1].value.choices[1].index = 5
    /\ r_out[1].value.choices[2].index = 1
    /\ r_out[1].value.created = r_clock

\* C18: the conversion to a Responses-dialect response yields, for every
\* upstream response, one output item per choice: a function-call item made
\* of the choice's first tool call where the choice has tool_calls, else a
\* message item that holds the assistant text, or the refusal "No content"
\* where the choice has no content.
C18_OneOutputItemPerChoice ==
    (r_route = "responses" /\ r_out # << >>) =>
        /\ r_out[1].ok
        /\ LET output == r_out[1].value.output
           IN  /\ Len(output) = Len(r_upstream.choices)
               /\ \A i \in DOMAIN r_upstream.choices :
                     LET msg == r_upstream.choices[i].message IN
                     IF msg.tool_calls # << >>
                     THEN /\ output[i].type = "function_call"
                          /\ output[i].name = msg.tool_calls[1][1].function.name
                          /\ output[i].arguments = msg.tool_calls[1][1].function.arguments
                     ELSE /\ output[i].type = "message"
                          /\ output[i].content =
                                IF msg.content # << >>
                                THEN <<[type |-> "output_text", text |-> msg.content[1]]>>
                                ELSE <<[type |-> "refusal", refusal |-> "No content"]>>

\* C19: transform_to_ollama_response answers an upstream response without
\* choices with an error; otherwise it answers with a response made of the
\* first choice alone: done is true, done_reason is that choice's
\* finish_reason, prompt_eval_count and eval_count are the usage's
\* prompt_tokens and completion_tokens or are both absent with the usage,
\* and model is the model of the request.
C19_OllamaFromFirstChoice ==
    (r_route = "ollama_chat" /\ r_out # << >>) =>
        IF r_upstream.choices = << >>
        THEN ~r_out[1].ok
        ELSE /\ r_out[1].ok
             /\ LET ollama == r_out[1].value
                    first  == r_upstream.choices[1]
                IN  /\ ollama.message.role = first.message.role
                    /\ ollama.message.content =
                          IF first.message.content # << >>
                          THEN first.message.content[1] ELSE ""
                    /\ ollama.done = TRUE
                    /\ ollama.done_reason = Some(first.finish_reason)
                    /\ IF r_upstream.usage # << >>
                       THEN /\ ollama.prompt_eval_count
                                 = Some(r_upstream.usage[1].prompt_tokens)
                            /\ ollama.eval_count
                                 = Some(r_upstream.usage[1].completion_tokens)
                       ELSE /\ ollama.prompt_eval_count = << >>
                            /\ ollama.eval_count = << >>
                    /\ ollama.model = r_request.model

C19_Witness ==
    /\ r_route = "ollama_chat"
    /\ r_out # << >>
    /\ Len(r_upstream.choices) = 2
    /\ r_upstream.choices[1].finish_reason = "content_filter"
    /\ r_upstream.choices[2].finish_reason = "length"
    /\ r_upstream.usage # << >>
    /\ r_out[1].ok
    /\ r_out[1].value.done_reason = Some("content_filter")
    /\ r_out[1].value.message.content = "Bye"
    /\ r_out[1].value.eval_count = Some(20)
    /\ r_out[1].value.model # r_upstream.model

(***************************************************************************)
(* Token failures and retries, seen from a handler (SpecHandler).          *)
(***************************************************************************)

\* C28: a token failure is surfaced by its kind: LoginRequired is answered
\* with 401, RefreshFailed with a 5xx status.
C28_TokenFailuresByKind ==
    /\ h_token = Failed(LoginRequired) => h_status = Some(401)
    /\ h_token = Failed(RefreshFailed) =>
          (h_status # << >> /\ h_status[1] \in 500 .. 599)

UpstreamFailures == {"transport", "error_status"}

\* C30: nothing is retried. One client request causes at most one call of
\* get_token, at most one token-exchange request and at most one upstream
\* chat-completion request; once the token or the upstream request has failed
\* the handler has answered with an error status, and a failed token means
\* that no upstream request was sent.
C30_NoAutomaticRetry ==
    /\ h_tokens <= 1
    /\ h_exchanges <= 1
    /\ h_upstream <= 1
    /\ h_token.kind = "Err" =>
          /\ h_pc = "answered"
          /\ h_status # << >> /\ h_status[1] >= 400
          /\ h_upstream = 0
    /\ (h_outcome # << >> /\ h_outcome[1] \in UpstreamFailures) =>
          /\ h_pc = "answered"
          /\ h_status # << >> /\ h_status[1] >= 400
          /\ h_upstream = 1

\* C30 witness: the one exchange request of a client request has failed and
\* the request was answered with an error, nothing sent upstream.
C30_Witness ==
    /\ h_token = Failed(RefreshFailed)
    /\ h_tokens = 1
    /\ h_exchanges = 1
    /\ h_upstream = 0
    /\ h_pc = "answered"
    /\ h_status = Some(401)

(***************************************************************************)
(* The streaming transcoders (SpecStream, SpecConcurrent).                 *)
(***************************************************************************)
\* The lines stream k has read so far.
ReadLines(k) == SubSeq(t_upstream[k], 1, t_pos[k])

\* Stream k reads its next line in this step.
Reads(k) == t_pos'[k] = t_pos[k] + 1

\* C21: in each of the three transcoders a line without the "data: " prefix,
\* blank or not, yields no event and leaves the state of the transcoder as
\* it was, so that the lines after it are translated as without it.
C21_LinesWithoutPrefixAreSkipped ==
    [][\A k \in Streams :
          (Reads(k) /\ ~NextLine(k).data) =>
              /\ t_events'[k] = t_events[k]
              /\ t_response_id'[k] = t_response_id[k]
              /\ t_response_model'[k] = t_response_model[k]
              /\ t_accumulated_text'[k] = t_accumulated_text[k]]_vars

\* C21 witness: a Responses stream has read a line of blanks, then a line that
\* is not blank and has no prefix, then a chunk, and the chunk's four events
\* are all that was sent.
C21_Witness ==
    /\ t_route[1] = "responses"
    /\ t_upstream[1] = <<RawLine("  "), RawLine("event: ping"),
                         DataLine(JsonPayload(HelloChunk))>>
    /\ t_pos[1] = 3
    /\ Len(t_events[1]) = 4
    /\ t_accumulated_text[1] = <<"Hello">>

IsDataLine(line) == line.data

OneDeltaChunk(line) ==
    /\ line.data
    /\ line.payload.json
    /\ LET chunk == line.payload.value
       IN  /\ chunk.id = Some("r1")
           /\ chunk.model # << >>
           /\ chunk.choices # << >>
           /\ Len(chunk.choices[1]) = 1
           /\ unwrap_or(chunk.choices[1][1].delta.content, << >>) # << >>

\* n >= 1 chunks of one id, one delta each, then [DONE].
ChunksThenDone(lines) ==
    /\ Len(lines) >= 2
    /\ lines[Len(lines)] = DataLine(DONE)
    /\ \A i \in 1 .. Len(lines) - 1 : OneDeltaChunk(lines[i])

EventTypes(events) == [i \in 1 .. Len(events) |-> events[i].event]

IsDelta(event) == event.event = "response.output_text.delta"

RECURSIVE DeltasOf(_, _)
\* The delta payloads of the first n events, concatenated in their order.
DeltasOf(events, n) ==
    IF n = 0 THEN << >>
    ELSE DeltasOf(events, n - 1)
           \o (IF IsDelta(events[n]) THEN events[n].data.delta ELSE << >>)

\* The text a terminal event carries.
CarriedText(event) ==
    CASE event.event = "response.output_text.done"  -> event.data.text
      [] event.event = "response.content_part.done" -> event.data.part.text
      [] event.event = "response.output_item.done"  -> event.data.item.content[1].text
      [] event.event = "response.completed" ->
            event.data.response.output[1].content[1].text

TerminalTypes ==
    {"response.output_text.done", "response.content_part.done",
     "response.output_item.done", "response.completed"}

\* C24: at every point of a Responses stream accumulated_text is the
\* concatenation, in the order sent, of the payloads of the delta events sent
\* so far, and every terminal event carries the accumulated_text of the
\* moment it was sent.
C24_AccumulatedTextIsTheDeltas ==
    \A k \in Streams :
        t_route[k] = "responses" =>
            /\ t_accumulated_text[k] = DeltasOf(t_events[k], Len(t_events[k]))
            /\ \A i \in 1 .. Len(t_events[k]) :
                  t_events[k][i].event \in TerminalTypes =>
                      CarriedText(t_events[k][i]) = DeltasOf(t_events[k], i)

\* C24 witness: two deltas were sent and the completed response carries both.
C24_Witness ==
    /\ t_route[1] = "responses"
    /\ t_upstream[1] = <<DataLine(JsonPayload(HelloChunk)),
                         DataLine(JsonPayload(WorldChunk)), DataLine(DONE)>>
    /\ t_pos[1] = 3
    /\ t_accumulated_text[1] = <<"Hello", " world">>
    /\ Len(t_events[1]) = 9
    /\ CarriedText(t_events[1][9]) = <<"Hello", " world">>
    /\ CarriedText(t_events[1][6]) = <<"Hello", " world">>

\* C25: once a Responses stream has read a [DONE] line, no later line causes
\* an event.
C25_ClosedIsTerminal ==
    [][\A k \in Streams :
          (/\ t_route[k] = "responses"
           /\ Reads(k)
           /\ \E i \in 1 .. t_pos[k] : t_upstream[k][i] = DataLine(DONE)) =>
              t_events'[k] = t_events[k]]_vars

\* A payload that is neither [DONE] nor a chunk of the route: no JSON at
\* all, or JSON without a key the route's chunk requires.
Malformed(route, line) ==
    /\ line.data
    /\ line.payload # DONE
    /\ \/ ~line.payload.json
       \/ line.payload.value.choices = << >>
       \/ /\ route = "responses"
          /\ (line.payload.value.id = << >> \/ line.payload.value.model = << >>)

\* C26: in the Responses and the Ollama transcoder a "data: " line whose
\* payload is malformed sends no event and changes nothing in the
\* transcoder's state, so the lines around it are translated as without it.
C26_MalformedPayloadIsSkipped ==
    [][\A k \in Streams :
          (/\ t_route[k] \in {"responses", "ollama_chat"}
           /\ Reads(k)
           /\ Malformed(t_route[k], NextLine(k))) =>
              /\ t_events'[k] = t_events[k]
              /\ t_response_id'[k] = t_response_id[k]
              /\ t_response_model'[k] = t_response_model[k]
              /\ t_accumulated_text'[k] = t_accumulated_text[k]]_vars

\* C26 witness: an Ollama stream has read a chunk, a malformed line and a
\* chunk, and sent the two objects of the chunks.
C26_Witness ==
    /\ t_route[1] = "ollama_chat"
    /\ t_upstream[1] = <<DataLine(JsonPayload(HelloChunk)),
                         DataLine(TextPayload("{bad")),
                         DataLine(JsonPayload(WorldChunk))>>
    /\ t_pos[1] = 3
    /\ Len(t_events[1]) = 2
    /\ t_events[1][2][1].message.content = <<" world">>

\* The lines the Ollama transcoder answers: [DONE] and JSON with choices.
OllamaAnswers(line) ==
    /\ line.data
    /\ \/ line.payload = DONE
       \/ line.payload.json /\ line.payload.value.choices # << >>

RECURSIVE Alone(_, _, _, _, _)
\* What a stream of the route, alone, has sent after the first n of the
\* lines, with what it holds in its accumulator.
Alone(route, model, clock, lines, n) ==
    IF n = 0 THEN Translated("", "", << >>, << >>)
    ELSE LET before == Alone(route, model, clock, lines, n - 1)
         IN  CASE route = "responses" ->
                    LET out == responses_translate_sse_line(
                                   lines[n], clock, before.response_id,
                                   before.response_model, before.accumulated_text)
                    IN  [out EXCEPT !.events = before.events \o @]
               [] route = "ollama_chat" ->
                    LET out == ollama_translate_sse_line(model, lines[n], clock)
                    IN  [before EXCEPT !.events =
                           IF out.kind = "Line" THEN Append(@, out.line) ELSE @]
               [] route = "chat_completions" ->
                    LET out == chat_translate_sse_line(lines[n])
                    IN  [before EXCEPT !.events =
                           IF out.kind = "Data"
                           THEN Append(@, SseData(out.payload)) ELSE @]

\* C29: with two streams at a time, whatever the order in which their lines
\* arrive, each client has been sent exactly what it would have been sent
\* had its stream been the only one.
C29_StreamsDoNotMix ==
    \A k \in Streams :
        t_events[k] = Alone(t_route[k], t_model[k], t_clock,
                            t_upstream[k], t_pos[k]).events

\* C29 witness: two Responses streams are open at the same time, each half
\* read, each holding its own text.
C29_Witness ==
    /\ t_route[1] = "responses" /\ t_route[2] = "responses"
    /\ Len(t_upstream[1]) = 2 /\ Len(t_upstream[2]) = 2
    /\ t_pos[1] = 1 /\ t_pos[2] = 1
    /\ t_accumulated_text[1] = <<"Hello">>
    /\ t_accumulated_text[2] = <<" world">>
    /\ Len(t_events[1]) = 4 /\ Len(t_events[2]) = 4

(***************************************************************************)
(* The Responses request conversion (SpecHandler).                         *)
(***************************************************************************)
IsFunctionCall(item) == item.message_type = "function_call"

IsFunctionCallOutput(item) == item.message_type = "function_call_output"

HasAssistantRole(message) == message.role = assistant_role

HasToolRole(message) == message.role = tool_role

\* C31: the request sent upstream for /v1/responses starts with a system
\* message holding the instructions. With n >= 1 function_call items in the
\* input it has exactly one assistant message, whose tool_calls are those
\* items in input order with the ids "0" .. "n-1", followed to the end by the
\* tool messages: the i-th function_call_output with tool_call_id "i" and the
\* name of the i-th function_call, min(calls, outputs) of them. Without a
\* function_call item it has no assistant and no tool message.
C31_PromptRequestToolMessages ==
    (h_route = "responses" /\ h_copilot # << >>) =>
        LET input      == h_request[1].input
            calls      == SelectSeq(input, IsFunctionCall)
            outputs    == SelectSeq(input, IsFunctionCallOutput)
            messages   == h_copilot[1].messages
            assistants == SelectSeq(messages, HasAssistantRole)
            tools      == SelectSeq(messages, HasToolRole)
            n          == Len(calls)
        IN  /\ messages[1].role = "system"
            /\ messages[1].content = Some(h_request[1].instructions)
            /\ IF n = 0
               THEN assistants = << >> /\ tools = << >>
               ELSE /\ Len(assistants) = 1
                    /\ Len(assistants[1].tool_calls[1]) = n
                    /\ \A i \in 1 .. n :
                          LET call == assistants[1].tool_calls[1][i]
                          IN  /\ call.id = Some(ToString(i - 1))
                              /\ call.function.name = calls[i].name[1]
                    /\ Len(tools) = IF n < Len(outputs) THEN n ELSE Len(outputs)
                    /\ messages[Len(messages) - Len(tools)] = assistants[1]
                    /\ \A i \in 1 .. Len(tools) :
                          /\ messages[Len(messages) - Len(tools) + i] = tools[i]
                          /\ tools[i].tool_call_id = Some(ToString(i - 1))
                          /\ tools[i].name = Some(calls[i].name[1])
                          /\ tools[i].content = outputs[i].output

\* C31 witness: an input of two function_call items and one
\* function_call_output was converted: one assistant message with two calls
\* and one tool message.
C31_Witness ==
    /\ h_route = "responses"
    /\ h_copilot # << >>
    /\ Len(SelectSeq(h_request[1].input, IsFunctionCall)) = 2
    /\ Len(SelectSeq(h_request[1].input, IsFunctionCallOutput)) = 1
    /\ Len(h_copilot[1].messages) = 3
    /\ h_copilot[1].messages[3].tool_call_id = Some("0")

(***************************************************************************)
(* Tool results against their calls after the renumbering (SpecNormalize). *)
(***************************************************************************)
RECURSIVE AssignedCallIds(_, _)
\* The ids of the tool calls of the assistant messages among the first n
\* messages, in the order in which ensure_tool_ids collects their names.
AssignedCallIds(messages, n) ==
    IF n = 0 THEN << >>
    ELSE LET m     == messages[n]
             calls == IF m.role = assistant_role /\ m.tool_calls # << >>
                      THEN m.tool_calls[1] ELSE << >>
         IN  AssignedCallIds(messages, n - 1)
                 \o [j \in 1 .. Len(calls) |-> calls[j].id]

\* C35: after ensure_tool_ids has renumbered a request, every tool message
\* that was given the name of an assistant tool call carries, as its
\* tool_call_id, the id given to that call.
C35_ToolResultMatchesItsCall ==
    (n_runs >= 1 /\ ~ids_present(n_original)) =>
        LET ids == AssignedCallIds(n_messages, Len(n_messages))
        IN  \A i \in DOMAIN n_messages :
                (/\ n_messages[i].role = tool_role
                 /\ ToolIndex(n_messages, i) < Len(ids)) =>
                    n_messages[i].tool_call_id = ids[ToolIndex(n_messages, i) + 1]

(***************************************************************************)
(* The upstream's answer in the handlers (SpecHandler).                    *)
(***************************************************************************)
\* C34: when the upstream answers the chat-completion request with a status
\* that is no success, the handler of each route answers with a 5xx status
\* whose message carries the upstream's status and the text of its body, and
\* the response reaches neither the streaming nor the converting branch.
C34_UpstreamErrorIsSurfaced ==
    (h_response # << >> /\ h_response[1].status \notin 200 .. 299) =>
        /\ h_pc = "answered"
        /\ h_status # << >> /\ h_status[1] \in 500 .. 599
        /\ h_error # << >>
        /\ h_error[1].status = h_response[1].status
        /\ h_response[1].text # << >> => h_error[1].error_text = h_response[1].text[1]
        /\ h_branch = "none"

\* C34 witness: a streaming request on /api/chat met a 429 of the upstream
\* and was answered with 500 and the upstream's status and text.
C34_Witness ==
    /\ h_route = "ollama_chat"
    /\ h_request # << >> /\ h_request[1].stream
    /\ h_response = Some([status |-> 429, text |-> Some("quota exceeded")])
    /\ h_status = Some(500)
    /\ h_error # << >> /\ h_error[1].error_text = "quota exceeded"
    /\ h_branch = "none"

\* C36: on every route the stream flag of the request sent upstream is the
\* stream flag of the client's request, and the response is given to the
\* streaming branch exactly when the upstream was asked to stream.
C36_StreamFlagIsForwarded ==
    /\ h_copilot # << >> => h_copilot[1].stream = Some(h_request[1].stream)
    /\ h_branch # "none" => (h_branch = "sse" <=> h_copilot[1].stream = Some(TRUE))

(***************************************************************************)
(* The lifecycle of a Responses stream (SpecStream).                       *)
(***************************************************************************)
OpenTypes ==
    <<"response.created", "response.output_item.added",
      "response.content_part.added">>

\* The events stream k sends in this step.
Sent(k) == SubSeq(t_events'[k], Len(t_events[k]) + 1, Len(t_events'[k]))

\* The next line of stream k is a chunk the Responses transcoder can parse.
NextIsChunk(k) ==
    /\ NextLine(k).data
    /\ NextLine(k).payload # DONE
    /\ parse_CopilotChunk(NextLine(k).payload).ok

\* The non-empty delta contents of the choices of a chunk, in their order.
ContentsOf(choices) ==
    LET present(choice) ==
            choice.delta.content # << >> /\ choice.delta.content[1] # << >>
        kept == SelectSeq(choices, present)
    IN  [i \in 1 .. Len(kept) |-> kept[i].delta.content[1]]

\* C32: a Responses stream sends response.created, response.output_item.added
\* and response.content_part.added at most once, at the first chunk whose id
\* is not empty; every chunk after it sends only response.output_text.delta
\* events, one per choice whose delta content is not empty, in the order of
\* the choices, and so nothing when every delta is empty or absent.
C32_OpenOnceThenOnlyDeltas ==
    [][\A k \in Streams :
          (t_route[k] = "responses" /\ Reads(k) /\ NextIsChunk(k)) =>
              LET chunk    == parse_CopilotChunk(NextLine(k).payload).value
                  contents == ContentsOf(chunk.choices)
                  new      == Sent(k)
                  opens    == t_response_id[k] = "" /\ chunk.id # ""
                  deltas   == IF opens THEN SubSeq(new, 4, Len(new)) ELSE new
              IN  /\ opens =>
                        /\ Len(new) >= 3
                        /\ SubSeq(EventTypes(new), 1, 3) = OpenTypes
                        /\ \A i \in DOMAIN t_events[k] :
                              t_events[k][i].event \notin
                                  {OpenTypes[j] : j \in 1 .. 3}
                        /\ \A i \in 1 .. t_pos[k] :
                              LET past == t_upstream[k][i]
                              IN  (/\ past.data /\ past.payload # DONE
                                   /\ parse_CopilotChunk(past.payload).ok) =>
                                      parse_CopilotChunk(past.payload).value.id = ""
                  /\ Len(deltas) = Len(contents)
                  /\ \A i \in DOMAIN deltas :
                        /\ IsDelta(deltas[i])
                        /\ deltas[i].data.delta = contents[i]]_vars

\* C32 witness: the first chunk opened the response and new one delta, the
\* chunk of two choices new two deltas and the chunk without content none.
C32_Witness ==
    /\ t_route[1] = "responses"
    /\ t_upstream[1] = <<DataLine(JsonPayload(HelloChunk)),
                         DataLine(JsonPayload(TwoChoicesChunk)),
                         DataLine(JsonPayload(RoleChunk))>>
    /\ t_pos[1] = 3
    /\ Len(t_events[1]) = 6
    /\ SubSeq(EventTypes(t_events[1]), 1, 3) = OpenTypes
    /\ \A i \in 4 .. 6 : IsDelta(t_events[1][i])

\* C33: [DONE] read by a Responses stream that has read no chunk sends
\* response.output_text.done, response.content_part.done,
\* response.output_item.done and response.completed, in this order and each
\* with the empty text, and the stream has then sent none of the three
\* opening events.
C33_DoneWhileIdle ==
    [][\A k \in Streams :
          (/\ t_route[k] = "responses"
           /\ Reads(k)
           /\ NextLine(k) = DataLine(DONE)
           /\ \A i \in 1 .. t_pos[k] :
                 ~t_upstream[k][i].data \/ t_upstream[k][i].payload = DONE
                   \/ ~parse_CopilotChunk(t_upstream[k][i].payload).ok) =>
              /\ EventTypes(Sent(k)) =
                    <<"response.output_text.done", "response.content_part.done",
                      "response.output_item.done", "response.completed">>
              /\ \A i \in 1 .. 4 : CarriedText(Sent(k)[i]) = << >>
              /\ \A i \in DOMAIN t_events'[k] :
                    t_events'[k][i].event \notin {OpenTypes[j] : j \in 1 .. 3}]_vars

\* C33 witness: a stream of a blank line and [DONE] sent the four terminal
\* events and nothing else.
C33_Witness ==
    /\ t_route[1] = "responses"
    /\ t_upstream[1] = <<RawLine(""), DataLine(DONE)>>
    /\ t_pos[1] = 2
    /\ t_response_id[1] = ""
    /\ Len(t_events[1]) = 4
    /\ t_events[1][1].event = "response.output_text.done"
    /\ t_events[1][4].event = "response.completed"
    /\ CarriedText(t_events[1][4]) = << >>

\* C38: every response.output_text.delta of a Responses stream comes after
\* the response.created, response.output_item.added and
\* response.content_part.added of the stream, and its item_id is the id of
\* the opened response, which is not empty.
C38_NoDeltaBeforeOpen ==
    \A k \in Streams :
        t_route[k] = "responses" =>
            \A i \in DOMAIN t_events[k] :
                IsDelta(t_events[k][i]) =>
                    /\ \A j \in 1 .. 3 :
                          \E h \in 1 .. i - 1 : t_events[k][h].event = OpenTypes[j]
                    /\ t_events[k][i].data.item_id # ""
                    /\ t_events[k][i].data.item_id = t_response_id[k]

(***************************************************************************)
(* The chunks of the upstream body (SpecChunks).                           *)
(***************************************************************************)
\* C37: two deliveries of the same bytes to the same transcoder, cut into
\* chunks at different places, a place in the middle of a line included,
\* have sent the same events once both are read to the end.
C37_ChunkingDoesNotMatter ==
    (/\ t_route[1] = t_route[2]
     /\ \E cuts \in [1 .. Len(t_upstream[1]) -> Cuts] :
           t_upstream[2] = lines_of_chunks(t_upstream[1], cuts, Len(t_upstream[1]))
     /\ t_pos[1] = Len(t_upstream[1])
     /\ t_pos[2] = Len(t_upstream[2])) =>
        t_events[1] = t_events[2]

(***************************************************************************)
(* The order of the interactive login (SpecLogin).                         *)
(***************************************************************************)
LoginOrder ==
    <<"request_device_code", "poll_for_access_token", "save_access_token",
      "get_copilot_token", "save_token">>

Called(call) == \E i \in DOMAIN l_calls : l_calls[i] = call

\* C39: login calls request_device_code, poll_for_access_token,
\* save_access_token, get_copilot_token and save_token in this order, each
\* once.  The access token file is touched only after polling returned a
\* token and the Copilot token file only after the exchange returned one;
\* when polling fails both files are as before the login, and when the
\* exchange fails the access token file holds the token polling returned
\* and the Copilot token file is as before the login.
C39_LoginOrder ==
    /\ Len(l_calls) <= Len(LoginOrder)
    /\ l_calls = SubSeq(LoginOrder, 1, Len(l_calls))
    /\ l_files[access_token_path] # l_before[access_token_path] =>
          /\ Called("save_access_token")
          /\ l_access # << >> /\ l_access[1].ok
    /\ l_files[token_path] # l_before[token_path] =>
          /\ Called("save_token")
          /\ l_copilot # << >> /\ l_copilot[1].ok
    /\ (l_access # << >> /\ ~l_access[1].ok) =>
          /\ l_pc = "failed"
          /\ l_files = l_before
    /\ (l_copilot # << >> /\ ~l_copilot[1].ok) =>
          /\ l_pc = "failed"
          /\ l_files[access_token_path] = Some(l_access[1].value)
          /\ l_files[token_path] = l_before[token_path]

\* C39 witness: a login over the records of a former one went through the
\* five calls and left both new records.
C39_Witness ==
    /\ l_pc = "done"
    /\ l_calls = LoginOrder
    /\ l_before = [path \in StoragePaths |-> Some("former")]
    /\ l_files[access_token_path] = Some("gho_1")
    /\ l_files[token_path] = Some("tid_2")

\* C39 witness of the failed exchange: the access token is kept and the
\* former Copilot token record is as it was.
C39_ExchangeFailed ==
    /\ l_pc = "failed"
    /\ l_copilot = Some(Err("Failed to send Copilot token request"))
    /\ l_files[access_token_path] = Some("gho_2")
    /\ l_files[token_path] = Some("former")

====
